---- MODULE Spec2Model ----
(***************************************************************************)
(* musicbot-rs: the per-guild playback queue (src/src/queue.rs), the voice *)
(* transport it drives, the track-end handler (src/src/events.rs) and the  *)
(* join / leave commands (src/src/commands.rs).                            *)
(*                                                                         *)
(* Every operation of Data is split at the places where it releases the    *)
(* server_queues lock: the bot runs on a multi-threaded runtime, so        *)
(* another task can run between two lock scopes of one operation.  One     *)
(* lock scope is one atomic step.                                          *)
(*                                                                         *)
(* Indices are 0-based as in the source: entry i of songs is songs[i+1].   *)
(* Option<T> is a sequence of length at most one.  Every action is indexed *)
(* by its guild and reads and writes that guild's entries only; the queue  *)
(* operations are called for the guilds of QueueGuilds, one guild, to keep *)
(* the state space of their interleavings checkable, and the status        *)
(* scheduler of playlist_info.rs serves all of Guilds.                     *)
(***************************************************************************)
EXTENDS Integers, Sequences, FiniteSets, TLC

\* ---------------------------------------------------------------- bounds
MaxQueue == 2
MaxTracks == 3
MaxJoins == 1
MaxPrevCfg == 2
MaxMsgs == 3
MaxEmbeds == 3
MaxFields == 1
MaxChars == 3
MaxTruncLen == 13

Guilds == {"g1", "g2"}
QueueGuilds == {"g1"}
Songs == {"X", "Y"}
Tasks == {"t1", "t2"}

\* the tasks of the runtime: the callers of the queue operations, the task
\* spawned by start_queue_message_update, and a caller that builds the
\* embeds of one message
Procs == Tasks \cup {"sched", "embeds", "trunc"}

\* ---------------------------------------------------------------- Option
None == << >>
Some(x) == << x >>
IsSome(o) == o # << >>
Unwrap(o) == o[1]

\* ---------------------------------------------------------------- state
VARIABLES
    server_queues,          \* Data.server_queues: guild -> Option<ServerQueue>
    calls,                  \* songbird's call map: 0 = no call for the guild,
                            \* n > 0 = a call with n registered end notifiers
    tracks,                 \* per guild, the tracks play_input has started;
                            \* a TrackHandle is a position in this sequence
    pending_end,            \* per guild and track, end events raised and not
                            \* yet handled by TrackEndNotifier::act
    server_info,            \* Data.server_info: guild -> Option<ServerInfo>
    max_previously_played,  \* Config.max_previously_played
    pc,                     \* per task: "idle", the lock scope it runs next,
                            \* or "return" when its operation hands back ret;
                            \* for "sched" the place of the scheduler in its loop
    loc,                    \* per task, the arguments and locals of its operation;
                            \* for "sched" the locals of the scheduler's cycle
    ret                     \* per task in "return", the value returned

vars == << server_queues, calls, tracks, pending_end, server_info,
           max_previously_played, pc, loc, ret >>

\* ServerQueue::default()
DefaultQueue ==
    [loop_song |-> FALSE, loop_queue |-> FALSE, current |-> None, songs |-> << >>]

\* ServerInfo::default()
DefaultInfo == [previous_songs |-> << >>, status_message |-> None]

NoLoc == [g |-> "g1", idx |-> 0, song |-> "none"]
NoRet == [kind |-> "none", song |-> "none"]

\* the locals of the scheduler at the start of a cycle: the snapshot
\* to_update, the time the cycle's work has taken, and for the guild being
\* updated the flag of build_now_playing, the attempts and the result of
\* try_call_hanging, and the result of the edit; the sleep before the cycle
\* and whether the cycle has been logged as taking more than 5 seconds
NoSched ==
    [to_update |-> << >>, elapsed |-> 0, not_in_channel |-> FALSE,
     attempts |-> << >>, call_ms |-> 0, state |-> None,
     edit_ok |-> FALSE, success |-> FALSE, sleep_ms |-> 0, overrun |-> FALSE]

\* Embed::default(): an embed with nothing set
DefaultEmbed == [title |-> None, description |-> None, fields |-> << >>, footer |-> None]

\* the locals of the caller that builds embeds: Size::new(), no embed built
\* yet (sum is the length of the texts of the embeds built, count their
\* number), and for the embed being built its TrimmedEmbed settings, the
\* embed, the overflowed flag and the length of the last text given
NoEmbeds ==
    [size |-> 0, sum |-> 0, count |-> 0,
     too_big_msg |-> 0, truncate_description_newline |-> FALSE,
     embed |-> DefaultEmbed, overflowed |-> FALSE, given |-> 0]

Result(kind, song) == [kind |-> kind, song |-> song]

\* get_mut_queue_or_default: the guild's queue, a default one when absent
QueueOrDefault(g) ==
    IF IsSome(server_queues[g]) THEN Unwrap(server_queues[g]) ELSE DefaultQueue

SetQueue(g, q) == [server_queues EXCEPT ![g] = Some(q)]

\* the operation of task t returns r
Finish(t, r) ==
    /\ pc' = [pc EXCEPT ![t] = "return"]
    /\ loc' = [loc EXCEPT ![t] = NoLoc]
    /\ ret' = [ret EXCEPT ![t] = r]

\* the caller of task t takes the returned value; the task is free again
Return(t) ==
    /\ pc[t] = "return"
    /\ pc' = [pc EXCEPT ![t] = "idle"]
    /\ ret' = [ret EXCEPT ![t] = NoRet]
    /\ UNCHANGED loc

\* the operation of task t goes on with the lock scope label
Goto(t, label, l) ==
    /\ pc' = [pc EXCEPT ![t] = label]
    /\ loc' = [loc EXCEPT ![t] = l]
    /\ UNCHANGED ret

\* config.rs, default_max_previously_played
default_max_previously_played == 5

----
\* the state after construction, with max_previously_played as configured
\* the caller of the truncate functions before a call: the string given,
\* max_len, the string afterwards and the function called
NoTrunc == [s |-> << >>, max_len |-> 0, out |-> << >>, func |-> "none"]

InitWith(lengths) ==
    /\ server_queues = [g \in Guilds |-> None]
    /\ calls = [g \in Guilds |-> 0]
    /\ tracks = [g \in Guilds |-> << >>]
    /\ pending_end = [g \in Guilds |-> [h \in 1..MaxTracks |-> 0]]
    /\ server_info = [g \in Guilds |-> None]
    /\ max_previously_played \in lengths
    /\ pc = [p \in Procs |-> IF p = "sched" THEN "start" ELSE "idle"]
    /\ loc = [p \in Procs |-> CASE p = "sched" -> NoSched
                                [] p = "embeds" -> NoEmbeds
                                [] p = "trunc" -> NoTrunc
                                [] OTHER -> NoLoc]
    /\ ret = [t \in Tasks |-> NoRet]

\* any configured history length
Init == InitWith(0..MaxPrevCfg \cup {default_max_previously_played})

\* Config.max_previously_played left at its default
DefaultInit == InitWith({default_max_previously_played})

----
\* ------------------------------------------------------------ queue.rs

\* a caller (a command, an event handler) invokes operation op of Data
Call(t, op, g, index) ==
    /\ pc[t] = "idle"
    /\ pc' = [pc EXCEPT ![t] = op]
    /\ loc' = [loc EXCEPT ![t] = [NoLoc EXCEPT !.g = g, !.idx = index]]
    /\ UNCHANGED << server_queues, calls, tracks, pending_end, server_info,
                    max_previously_played, ret >>

\* a wrong song_in_range: the bound check off by one
song_in_range_inclusive(q, index) == index <= Len(q.songs)

\* play_index, line 180: songs.get(index) finds an entry
song_in_range(q, index) == index < Len(q.songs)

\* a wrong song_found: the entry is taken without the bound check
song_found_unchecked(q, index) == TRUE

\* play_index_unchecked, lines 212-215: songs.get_mut(index) finds an entry
song_found(q, index) == index < Len(q.songs)

\* the entry at a 0-based index ("none" when there is none)
song_at(q, index) == IF index < Len(q.songs) THEN q.songs[index + 1] ELSE "none"

\* a wrong new_index: loop_song is not looked at
new_index_no_loop_song(q) ==
    LET step == Unwrap(q.current).index + 1
    IN  IF q.loop_queue THEN step % Len(q.songs) ELSE step

\* a wrong new_index: loop_queue is not looked at
new_index_no_loop_queue(q) ==
    Unwrap(q.current).index + (IF q.loop_song THEN 0 ELSE 1)

\* next_song, lines 144-147: the index to play after the current one
new_index(q) ==
    LET step == Unwrap(q.current).index + (IF q.loop_song THEN 0 ELSE 1)
    IN  IF q.loop_queue THEN step % Len(q.songs) ELSE step

\* a wrong past_end: the comparison off by one
past_end_strict(q, index) == index > Len(q.songs)

\* next_song, line 149: the index to play lies past the last entry
past_end(q, index) == index >= Len(q.songs)

\* a wrong push_song: the song is put in front
push_song_front(q, song) == [q EXCEPT !.songs = << song >> \o @]

\* a wrong push_song: the song takes the place of the last entry
push_song_over(q, song) ==
    [q EXCEPT !.songs = IF @ = << >> THEN << song >>
                        ELSE SubSeq(@, 1, Len(@) - 1) \o << song >>]

\* add_song, lines 113 and 116: songs.push(song)
push_song(q, song) == [q EXCEPT !.songs = Append(@, song)]

\* a wrong with_current: the new current is not stored
with_current_dropped(q, index, handle) == q

\* play_index_unchecked, line 218: the queue with current replaced
with_current(q, index, handle) ==
    [q EXCEPT !.current = Some([index |-> index, handle |-> handle])]

\* TrackHandle::pause: fails once the track has ended or failed
pause_ok(g, h) == tracks[g][h].state \notin {"ended", "errored"}

\* play_index_unchecked (lines 201-221), the last lock scope of add_song,
\* next_song and play_index: looks up the guild's call, takes its handler and
\* the queue map's write lock, starts the entry and stores the new current.
play_index_unchecked(t, okKind) ==
    LET g == loc[t].g
        index == loc[t].idx
        q == QueueOrDefault(g)
    IN  IF calls[g] = 0
        THEN /\ UNCHANGED << server_queues, tracks >>
             /\ Finish(t, Result("ErrNotInVoice", "none"))
        ELSE IF ~song_found(q, index)
        THEN /\ server_queues' = SetQueue(g, q)
             /\ UNCHANGED tracks
             /\ Finish(t, Result("ErrNotFound", "none"))
        ELSE /\ Len(tracks[g]) < MaxTracks
             /\ tracks' = [tracks EXCEPT ![g] =
                    Append(@, [song |-> song_at(q, index), state |-> "playing"])]
             /\ server_queues' = SetQueue(g, with_current(q, index, Len(tracks[g]) + 1))
             /\ Finish(t, Result(okKind, song_at(q, index)))

\* add_song, line 107: get_song_data resolves the query.  A search error
\* (expect) or an empty result (swap_remove(0)) panics.
GetSongData(t, res) ==
    /\ pc[t] = "add_song"
    /\ IF res \in Songs
       THEN Goto(t, "add_push", [loc[t] EXCEPT !.song = res])
       ELSE Finish(t, Result("Panic", "none"))
    /\ UNCHANGED << server_queues, calls, tracks, pending_end, server_info,
                    max_previously_played >>

\* a wrong pushed_index: the first entry
pushed_index_first(q) == 0

\* add_song, lines 114 and 117: queue.songs.len() - 1 after the push
pushed_index(q) == Len(q.songs) - 1

\* add_song, lines 110-123: push the song under the write lock
AddSongPush(t) ==
    LET g == loc[t].g
        q == QueueOrDefault(g)
        pushed == push_song(q, loc[t].song)
    IN  /\ pc[t] = "add_push"
        /\ Len(q.songs) < MaxQueue
        /\ server_queues' = SetQueue(g, pushed)
        /\ IF IsSome(q.current)
           THEN Finish(t, Result("AddedToQueue", loc[t].song))
           ELSE Goto(t, "add_play",
                     [loc[t] EXCEPT !.idx = pushed_index(pushed)])
        /\ UNCHANGED << calls, tracks, pending_end, server_info, max_previously_played >>

\* add_song, lines 124-126
AddSongPlay(t) ==
    /\ pc[t] = "add_play"
    /\ play_index_unchecked(t, "NowPlaying")
    /\ UNCHANGED << calls, pending_end, server_info, max_previously_played >>

\* next_song, lines 137-155 and 161-163: choose the index under the write lock
NextSong(t) ==
    LET g == loc[t].g
        q == QueueOrDefault(g)
    IN  /\ pc[t] = "next_song"
        /\ IF ~IsSome(q.current)
           THEN /\ server_queues' = SetQueue(g, q)
                /\ Finish(t, Result("ErrNoCurrent", "none"))
           ELSE IF past_end(q, new_index(q))
           THEN /\ server_queues' = SetQueue(g, [q EXCEPT !.current = None])
                /\ Finish(t, Result("OkNone", "none"))
           ELSE /\ server_queues' = SetQueue(g, q)
                /\ Goto(t, "next_play", [loc[t] EXCEPT !.idx = new_index(q)])
        /\ UNCHANGED << calls, tracks, pending_end, server_info, max_previously_played >>

\* next_song, lines 157-160
NextSongPlay(t) ==
    /\ pc[t] = "next_play"
    /\ play_index_unchecked(t, "OkSome")
    /\ UNCHANGED << calls, pending_end, server_info, max_previously_played >>

\* play_index, lines 172-194: check the index and pause the current track
\* under the read lock
PlayIndex(t) ==
    LET g == loc[t].g
        index == loc[t].idx
    IN  /\ pc[t] = "play_index"
        /\ IF ~IsSome(server_queues[g])
           THEN /\ Finish(t, Result("ErrNothingPlaying", "none"))
                /\ UNCHANGED tracks
           ELSE LET q == Unwrap(server_queues[g]) IN
                IF ~song_in_range(q, index)
                THEN /\ Finish(t, Result("ErrIndex", "none"))
                     /\ UNCHANGED tracks
                ELSE IF IsSome(q.current) /\ ~pause_ok(g, Unwrap(q.current).handle)
                THEN /\ Finish(t, Result("ErrPause", "none"))
                     /\ UNCHANGED tracks
                ELSE /\ tracks' = IF IsSome(q.current)
                          THEN [tracks EXCEPT
                                  ![g][Unwrap(q.current).handle].state = "paused"]
                          ELSE tracks
                     /\ Goto(t, "pi_play", loc[t])
        /\ UNCHANGED << server_queues, calls, pending_end, server_info,
                        max_previously_played >>

\* play_index, lines 197-198
PlayIndexPlay(t) ==
    /\ pc[t] = "pi_play"
    /\ play_index_unchecked(t, "Ok")
    /\ UNCHANGED << calls, pending_end, server_info, max_previously_played >>

\* a wrong toggled: the flag is switched on
toggled_on(flag) == TRUE

\* set_loop_song, line 225, and set_loop_queue, line 231: the flag negated
toggled(flag) == ~flag

\* set_loop_song, lines 223-227
SetLoopSong(t) ==
    LET g == loc[t].g
        q == QueueOrDefault(g)
    IN  /\ pc[t] = "set_loop_song"
        /\ server_queues' = SetQueue(g, [q EXCEPT !.loop_song = toggled(q.loop_song)])
        /\ Finish(t, Result(IF toggled(q.loop_song) THEN "True" ELSE "False", "none"))
        /\ UNCHANGED << calls, tracks, pending_end, server_info, max_previously_played >>

\* set_loop_queue, lines 229-233
SetLoopQueue(t) ==
    LET g == loc[t].g
        q == QueueOrDefault(g)
    IN  /\ pc[t] = "set_loop_queue"
        /\ server_queues' = SetQueue(g, [q EXCEPT !.loop_queue = toggled(q.loop_queue)])
        /\ Finish(t, Result(IF toggled(q.loop_queue) THEN "True" ELSE "False", "none"))
        /\ UNCHANGED << calls, tracks, pending_end, server_info, max_previously_played >>

\* a wrong removed: the whole map is cleared
removed_all(queues, g) == [x \in Guilds |-> None]

\* reset_queue, line 96: the map after remove(&guild_id)
removed(queues, g) == [queues EXCEPT ![g] = None]

\* reset_queue, lines 95-97: the guild's entry is removed from the map and
\* the value remove gives, the state held before, is returned
ResetQueue(t) ==
    /\ pc[t] = "reset_queue"
    /\ server_queues' = removed(server_queues, loc[t].g)
    /\ Finish(t, [kind |-> "Reset", song |-> "none",
                  queue |-> server_queues[loc[t].g]])
    /\ UNCHANGED << calls, tracks, pending_end, server_info, max_previously_played >>

\* get_queue, lines 90-93: a clone of the guild's state under the read lock
GetQueue(t) ==
    /\ pc[t] = "get_queue"
    /\ Finish(t, [kind |-> "Queue", song |-> "none",
                  queue |-> server_queues[loc[t].g]])
    /\ UNCHANGED << server_queues, calls, tracks, pending_end, server_info,
                    max_previously_played >>

----
\* ------------------------------------------- commands.rs and events.rs

\* get_server_info: the guild's ServerInfo, a default one when absent
InfoOrDefault(g) ==
    IF IsSome(server_info[g]) THEN Unwrap(server_info[g]) ELSE DefaultInfo

\* join, lines 214-228: a successful join registers one more TrackEndNotifier
\* on the guild's call
Join(g) ==
    /\ calls[g] < MaxJoins
    /\ calls' = [calls EXCEPT ![g] = @ + 1]
    /\ UNCHANGED << server_queues, tracks, pending_end, server_info,
                    max_previously_played, pc, loc, ret >>

\* leave, lines 249-271: remove the call (its tracks stop with it) and unset
\* the status message; the queue and the history are not touched
Leave(g) ==
    /\ calls[g] > 0
    /\ calls' = [calls EXCEPT ![g] = 0]
    /\ tracks' = [tracks EXCEPT ![g] =
           [h \in 1..Len(@) |-> [@[h] EXCEPT !.state = "ended"]]]
    /\ server_info' = [server_info EXCEPT ![g] =
           Some([InfoOrDefault(g) EXCEPT !.status_message = None])]
    /\ UNCHANGED << server_queues, pending_end, max_previously_played, pc, loc, ret >>

\* the transport: a playing track reaches its end and the call raises the
\* track-end event once for every registered TrackEndNotifier
TrackEnd(g, h) ==
    /\ calls[g] > 0
    /\ h \in 1..Len(tracks[g])
    /\ tracks[g][h].state = "playing"
    /\ tracks' = [tracks EXCEPT ![g][h].state = "ended"]
    /\ pending_end' = [pending_end EXCEPT ![g][h] = @ + calls[g]]
    /\ UNCHANGED << server_queues, calls, server_info, max_previously_played,
                    pc, loc, ret >>

\* a wrong pop_front_while: the newest songs are dropped
RECURSIVE pop_back_while(_, _)
pop_back_while(previous_songs, max) ==
    IF Len(previous_songs) > max
    THEN pop_back_while(SubSeq(previous_songs, 1, Len(previous_songs) - 1), max)
    ELSE previous_songs

\* TrackEndNotifier::act, lines 61-63: drop from the front while too long
RECURSIVE pop_front_while(_, _)
pop_front_while(previous_songs, max) ==
    IF Len(previous_songs) > max
    THEN pop_front_while(Tail(previous_songs), max)
    ELSE previous_songs

\* TrackEndNotifier::act, lines 58-63: the history after the ended song
push_previous(previous_songs, song, max) ==
    pop_front_while(Append(previous_songs, song), max)

\* TrackEndNotifier::act, lines 45-68: one end event of track h is handled
HandleEnd(g, h) ==
    /\ pending_end[g][h] > 0
    /\ pending_end' = [pending_end EXCEPT ![g][h] = @ - 1]
    /\ server_info' = [server_info EXCEPT ![g] =
           Some([InfoOrDefault(g) EXCEPT !.previous_songs =
                    push_previous(@, tracks[g][h].song, max_previously_played)])]
    /\ UNCHANGED << server_queues, calls, tracks, max_previously_played, pc, loc, ret >>

\* a wrong error_act: the errored track goes into the history, as an ended
\* track does
error_act_as_end(infos, g, song) ==
    [infos EXCEPT ![g] =
        Some([InfoOrDefault(g) EXCEPT !.previous_songs =
                 push_previous(@, song, max_previously_played)])]

\* TrackErrorNotifier::act, lines 16-29: the server infos after the handler
\* has run for an errored track of guild g; it writes a log line only
error_act(infos, g, song) == infos

\* the transport: a playing track fails; the call raises the track-error
\* event (and no track-end event) and every registered TrackErrorNotifier
\* runs
TrackError(g, h) ==
    /\ calls[g] > 0
    /\ h \in 1..Len(tracks[g])
    /\ tracks[g][h].state = "playing"
    /\ tracks' = [tracks EXCEPT ![g][h].state = "errored"]
    /\ server_info' = error_act(server_info, g, tracks[g][h].song)
    /\ UNCHANGED << server_queues, calls, pending_end, max_previously_played,
                    pc, loc, ret >>

----
\* ------------------------------------------------------ playlist_info.rs

\* try_call_hanging, line 80: the number of attempts
try_call_attempts == 3

\* try_call_hanging, line 83: the time given to one attempt
attempt_timeout_ms == 1000

\* start_queue_message_update, line 298: the time given to one cycle
cycle_timeout_ms == 5000

\* start_queue_message_update, line 304: the period of the cycles
period_ms == 2000

\* start_queue_message_update, line 306: the longest sleep between cycles
max_sleep_ms == 1500

\* the message ids Discord gives to the status messages
Msgs == 1..MaxMsgs

\* the locals of the scheduler
Sched == loc["sched"]

SchedGoto(label, l) ==
    /\ pc' = [pc EXCEPT !["sched"] = label]
    /\ loc' = [loc EXCEPT !["sched"] = l]

\* a wrong Await: the work is waited for however long it takes
Await_untimed(d, label, l) ==
    SchedGoto(label, [l EXCEPT !.elapsed = Sched.elapsed + d])

\* start_queue_message_update, lines 296-301: the scheduler awaits something
\* that takes d milliseconds inside run_message_updates and goes on at label
\* with the locals l, unless sleep(5 s) of the select! is ready first (when
\* both are ready either branch is taken); then the cycle is dropped
Await(d, label, l) ==
    \/ /\ Sched.elapsed + d <= cycle_timeout_ms
       /\ SchedGoto(label, [l EXCEPT !.elapsed = Sched.elapsed + d])
    \/ /\ Sched.elapsed + d >= cycle_timeout_ms
       /\ SchedGoto("sleep", [NoSched EXCEPT !.elapsed = cycle_timeout_ms,
                                            !.overrun = TRUE])

\* the sequences that hold every element of a set once
Perms(set) ==
    {f \in [1..Cardinality(set) -> set] :
        \A i, j \in 1..Cardinality(set) : f[i] = f[j] => i = j}

\* run_message_updates, lines 254-264: the guilds with a status message, in
\* the order the map's iterator gives them, each with its message location
SchedSnapshot(order) ==
    LET to_update == [i \in 1..Len(order) |->
                        [g |-> order[i],
                         loc |-> Unwrap(InfoOrDefault(order[i]).status_message)]]
    IN  /\ pc["sched"] = "start"
        /\ order \in Perms({g \in Guilds : IsSome(InfoOrDefault(g).status_message)})
        /\ SchedGoto(IF to_update = << >> THEN "sleep" ELSE "build",
                     [NoSched EXCEPT !.to_update = to_update])
        /\ UNCHANGED << server_queues, calls, tracks, pending_end, server_info,
                        max_previously_played, ret >>

\* build_now_playing, lines 92-101, called by get_playlist_info_embeds for
\* the first guild of to_update: NotInChannel without a call, NotPlaying
\* when the call plays nothing, else the position of the track is asked for
SchedBuild(playing) ==
    LET g == Head(Sched.to_update).g
    IN  /\ pc["sched"] = "build"
        /\ IF calls[g] = 0
           THEN SchedGoto("edit", [Sched EXCEPT !.not_in_channel = TRUE])
           ELSE IF ~playing
           THEN SchedGoto("edit", [Sched EXCEPT !.not_in_channel = FALSE])
           ELSE SchedGoto("get_info", [Sched EXCEPT !.not_in_channel = FALSE,
                                                    !.attempts = << >>,
                                                    !.call_ms = 0,
                                                    !.state = None])
        /\ UNCHANGED << server_queues, calls, tracks, pending_end, server_info,
                        max_previously_played, ret >>

\* a wrong select_func_wins: the attempt is waited for however long it takes
select_func_wins_late(b) == b.kind # "hang"

\* try_call_hanging, lines 81-84: func() can be the branch select! takes
select_func_wins(b) == b.kind # "hang" /\ b.ms <= attempt_timeout_ms

\* try_call_hanging, lines 81-84: sleep(1 s) can be the branch select! takes
select_sleep_wins(b) == b.kind = "hang" \/ b.ms >= attempt_timeout_ms

\* a wrong exhausted: one attempt more
exhausted_late(attempts) == Len(attempts) = try_call_attempts + 1

\* try_call_hanging, lines 80 and 87: the loop is over
exhausted(attempts) == Len(attempts) = try_call_attempts

\* one turn of the loop of try_call_hanging (lines 80-85) around get_info
\* (build_now_playing, lines 107-112): func() is started and behaves as b.
\* When it answers first, try_call_hanging returns Some(state), or the expect
\* of line 111 panics on a failed get_info; when sleep(1 s) is first, the
\* attempt is dropped and the loop goes on, or returns None after the last.
TryCallAttempt(b) ==
    LET attempts == Append(Sched.attempts, b)
    IN  /\ pc["sched"] = "get_info"
        /\ \/ /\ select_func_wins(b)
              /\ b.kind = "ok"
              /\ Await(b.ms, "got_info",
                       [Sched EXCEPT !.attempts = attempts,
                                     !.call_ms = @ + b.ms,
                                     !.state = Some(b.value)])
           \/ /\ select_func_wins(b)
              /\ b.kind = "err"
              /\ Await(b.ms, "panicked", [Sched EXCEPT !.attempts = attempts])
           \/ /\ select_sleep_wins(b)
              /\ Await(attempt_timeout_ms,
                       IF exhausted(attempts) THEN "got_info" ELSE "get_info",
                       [Sched EXCEPT !.attempts = attempts,
                                     !.call_ms = @ + attempt_timeout_ms,
                                     !.state = None])
        /\ UNCHANGED << server_queues, calls, tracks, pending_end, server_info,
                        max_previously_played, ret >>

\* build_now_playing, lines 113-114: expect on the result of
\* try_call_hanging panics on None and with it the scheduler's task
SchedGotInfo ==
    /\ pc["sched"] = "got_info"
    /\ SchedGoto(IF IsSome(Sched.state) THEN "edit" ELSE "panicked",
                 [Sched EXCEPT !.attempts = << >>, !.call_ms = 0, !.state = None])
    /\ UNCHANGED << server_queues, calls, tracks, pending_end, server_info,
                    max_previously_played, ret >>

\* a wrong update_success: only the edit counts
update_success_edit_only(edit_ok, not_in_channel) == edit_ok

\* a wrong update_success: an update counts as done unless the edit fails
\* while the bot is in the channel
update_success_unless_in_channel(edit_ok, not_in_channel) == edit_ok \/ not_in_channel

\* update_queue_messsage, lines 220-227: the value returned
update_success(edit_ok, not_in_channel) == edit_ok /\ ~not_in_channel

\* update_queue_messsage, lines 216-227: the message at the location of the
\* snapshot is edited; the edit takes d milliseconds and succeeds or fails
SchedEdit(edit_ok, d) ==
    /\ pc["sched"] = "edit"
    /\ Await(d, "edited",
             [Sched EXCEPT !.edit_ok = edit_ok,
                           !.success = update_success(edit_ok, Sched.not_in_channel)])
    /\ UNCHANGED << server_queues, calls, tracks, pending_end, server_info,
                    max_previously_played, ret >>

\* run_message_updates, lines 285-288: the status message of the guild is
\* unset when the update did not succeed; then the next guild's turn
SchedFinishGuild ==
    LET g == Head(Sched.to_update).g
        rest == Tail(Sched.to_update)
    IN  /\ pc["sched"] = "edited"
        /\ server_info' =
              IF Sched.success
              THEN server_info
              ELSE [server_info EXCEPT ![g] =
                       Some([InfoOrDefault(g) EXCEPT !.status_message = None])]
        /\ SchedGoto(IF rest = << >> THEN "sleep" ELSE "build",
                     [NoSched EXCEPT !.to_update = rest, !.elapsed = Sched.elapsed])
        /\ UNCHANGED << server_queues, calls, tracks, pending_end,
                        max_previously_played, ret >>

\* a wrong saturating_sub: the distance of the two
saturating_sub_abs(a, b) == IF a > b THEN a - b ELSE b - a

\* Duration::saturating_sub
saturating_sub(a, b) == IF a > b THEN a - b ELSE 0

\* start_queue_message_update, lines 303-306
sleep_time(elapsed) ==
    LET rest == saturating_sub(period_ms, elapsed)
    IN  IF rest < max_sleep_ms THEN rest ELSE max_sleep_ms

\* start_queue_message_update, lines 303-307: the sleep before the next cycle
SchedSleep ==
    /\ pc["sched"] = "sleep"
    /\ SchedGoto("start", [NoSched EXCEPT !.sleep_ms = sleep_time(Sched.elapsed)])
    /\ UNCHANGED << server_queues, calls, tracks, pending_end, server_info,
                    max_previously_played, ret >>

\* one step of the task spawned by start_queue_message_update
SchedStep ==
    \/ \E order \in UNION {Perms(set) : set \in SUBSET Guilds} : SchedSnapshot(order)
    \/ \E playing \in BOOLEAN : SchedBuild(playing)
    \* what one call of TrackHandle::get_info can do: answer with the track's
    \* state after ms milliseconds, fail, or never answer
    \/ \E b \in {[kind |-> "ok", ms |-> 0, value |-> "p1"],
                 [kind |-> "ok", ms |-> 1000, value |-> "p2"],
                 [kind |-> "ok", ms |-> 2000, value |-> "p1"],
                 [kind |-> "err", ms |-> 0, value |-> "none"],
                 [kind |-> "hang", ms |-> 0, value |-> "none"]} : TryCallAttempt(b)
    \/ SchedGotInfo
    \* how long edit_message can take; the last one is longer than a cycle lasts
    \/ \E edit_ok \in BOOLEAN, d \in {0, 2000, 6000} : SchedEdit(edit_ok, d)
    \/ SchedFinishGuild
    \/ SchedSleep

\* the message ids that neither a guild nor the scheduler's snapshot holds
UnusedMsgs ==
    Msgs \ ({Unwrap(InfoOrDefault(g).status_message) :
                g \in {x \in Guilds : IsSome(InfoOrDefault(x).status_message)}}
            \cup {Sched.to_update[i].loc : i \in 1..Len(Sched.to_update)})

\* send_playlist_info, lines 232-235: the embeds are built, with the flag of
\* build_now_playing
SendInfoBuild(t) ==
    /\ pc[t] = "send_playlist_info"
    /\ Goto(t, "send_reply", [g |-> loc[t].g, idx |-> 0, song |-> "none",
                              not_in_channel |-> calls[loc[t].g] = 0])
    /\ UNCHANGED << server_queues, calls, tracks, pending_end, server_info,
                    max_previously_played >>

\* send_playlist_info, lines 237-250: the reply is sent and, when the bot was
\* in the channel, its location becomes the guild's status message
SendInfoStore(t) ==
    LET g == loc[t].g
    IN  /\ pc[t] = "send_reply"
        /\ IF loc[t].not_in_channel
           THEN UNCHANGED server_info
           ELSE /\ UnusedMsgs # {}
                /\ server_info' = [server_info EXCEPT ![g] =
                       Some([InfoOrDefault(g) EXCEPT !.status_message =
                               Some(CHOOSE m \in UnusedMsgs :
                                        \A n \in UnusedMsgs : m <= n)])]
        /\ Finish(t, Result("Ok", "none"))
        /\ UNCHANGED << server_queues, calls, tracks, pending_end,
                        max_previously_played >>

\* a wrong left_info: the whole server info is reset
left_info_reset(info) == DefaultInfo

\* leave, lines 263-264: the server info after leave has unset the status
\* message
left_info(info) == [info EXCEPT !.status_message = None]

\* a wrong final_update: the message is updated whether or not there was one
final_update_always(prev) == TRUE

\* leave, line 269: the final update is made when a status message was set
final_update(prev) == IsSome(prev)

\* leave, lines 249-255, run as a command by task t: without a call the
\* command only answers; with a call the call is removed, its tracks
\* stopping with it
LeaveRemove(t) ==
    LET g == loc[t].g
    IN  /\ pc[t] = "leave"
        /\ IF calls[g] = 0
           THEN /\ Finish(t, Result("NotInVoice", "none"))
                /\ UNCHANGED << calls, tracks >>
           ELSE /\ calls' = [calls EXCEPT ![g] = 0]
                /\ tracks' = [tracks EXCEPT ![g] =
                       [h \in 1..Len(@) |-> [@[h] EXCEPT !.state = "ended"]]]
                /\ Goto(t, "leave_say", loc[t])
        /\ UNCHANGED << server_queues, pending_end, server_info,
                        max_previously_played >>

\* leave, line 257: the answer "Left voice channel" is sent; when sending
\* fails the command returns the error (?) and does nothing more
LeaveSay(t, say_ok) ==
    /\ pc[t] = "leave_say"
    /\ IF say_ok
       THEN Goto(t, "leave_unset", loc[t])
       ELSE Finish(t, Result("ErrSay", "none"))
    /\ UNCHANGED << server_queues, calls, tracks, pending_end, server_info,
                    max_previously_played >>

\* leave, lines 260-269: the status message is taken and unset under the
\* guild's ServerInfo mutex
LeaveUnset(t) ==
    LET g == loc[t].g
        prev == InfoOrDefault(g).status_message
    IN  /\ pc[t] = "leave_unset"
        /\ server_info' = [server_info EXCEPT ![g] = Some(left_info(InfoOrDefault(g)))]
        /\ IF final_update(prev)
           THEN Goto(t, "leave_update",
                     [g |-> g, idx |-> 0, song |-> "none", prev |-> prev])
           ELSE Finish(t, Result("Ok", "none"))
        /\ UNCHANGED << server_queues, calls, tracks, pending_end,
                        max_previously_played >>

\* leave, lines 269-276: the final update of the message at the location
\* taken; whether the edit succeeds is not looked at
LeaveUpdate(t, edit_ok) ==
    /\ pc[t] = "leave_update"
    /\ Finish(t, Result("Ok", "none"))
    /\ UNCHANGED << server_queues, calls, tracks, pending_end, server_info,
                    max_previously_played >>

\* the scheduler with a caller of send_playlist_info, join and leave
SchedNext ==
    \/ SchedStep
    \/ \E g \in Guilds : Call("t1", "send_playlist_info", g, 0)
    \/ SendInfoBuild("t1")
    \/ SendInfoStore("t1")
    \/ /\ Return("t1")
       /\ UNCHANGED << server_queues, calls, tracks, pending_end, server_info,
                       max_previously_played >>
    \/ \E g \in Guilds : Join(g)
    \/ \E g \in Guilds : Leave(g)

SchedSpec == DefaultInit /\ [][SchedNext]_vars

\* the same, the runtime giving the scheduler's task its turn whenever it
\* can take a step
SchedLiveSpec == DefaultInit /\ [][SchedNext]_vars /\ WF_vars(SchedStep)

\* the scheduler, given its turn whenever it can take a step, with the
\* commands and the transport of one guild
PointerNext ==
    \/ SchedStep
    \/ \E g \in QueueGuilds : Call("t1", "send_playlist_info", g, 0)
    \/ SendInfoBuild("t1")
    \/ SendInfoStore("t1")
    \/ /\ Return("t1")
       /\ UNCHANGED << server_queues, calls, tracks, pending_end, server_info,
                       max_previously_played >>
    \/ \E g \in QueueGuilds : Join(g)
    \/ \E g \in QueueGuilds : Leave(g)

PointerLiveSpec == DefaultInit /\ [][PointerNext]_vars /\ WF_vars(SchedStep)

----
\* ------------------------------------------------------ trimmed_embed.rs
\* A text is its length in bytes and whether it has been cut.

\* line 38
EMBED_MAX_SIZE == 6000

\* title, line 150, and fields, lines 179-180: the lengths texts are cut to
title_max == 256
field_name_max == 256
field_value_max == 1024

\* description, lines 162 and 164
description_max == 4096

\* truncate_string_to_char_boundary, line 29: the length of "..."
char_trim_len == 3

\* truncate_string_to_newline_boundary, line 33: the length of "\n..."
newline_trim_len == 4

\* how far before the place of the cut the boundary looked for lies
Backs == {0, EMBED_MAX_SIZE}

Text(len) == [len |-> len, cut |-> FALSE]

\* truncate_string_backwards, lines 6-26: idx goes back from max_len less
\* the trim text to the boundary, back bytes before it or 0
truncate_string_backwards(s, max_len, trim_len, back) ==
    IF max_len < trim_len
    THEN [len |-> 0, cut |-> s.cut \/ s.len # 0]
    ELSE IF max_len >= s.len
    THEN s
    ELSE LET idx == max_len - trim_len
         IN  [len |-> (IF back > idx THEN 0 ELSE idx - back) + trim_len,
              cut |-> TRUE]

\* truncate_string_to_char_boundary, lines 28-30: a char boundary is at most
\* 3 bytes back
truncate_string_to_char_boundary(s, max_len, back) ==
    truncate_string_backwards(s, max_len, char_trim_len, IF back > 3 THEN 3 ELSE back)

\* truncate_string_to_newline_boundary, lines 32-36: the newline before idx
\* is anywhere, or there is none
truncate_string_to_newline_boundary(s, max_len, back) ==
    truncate_string_backwards(s, max_len, newline_trim_len, back)

\* a wrong size_fits: a text that fills the budget exactly is refused
size_fits_strict(size, val, buffer) == size + val < EMBED_MAX_SIZE - buffer

\* Size::add, lines 54-55: the new value is within the budget
size_fits(size, val, buffer) == size + val <= EMBED_MAX_SIZE - buffer

\* too_big_msg_length, lines 132-139
too_big_msg_length(too_big_msg) == IF too_big_msg = 0 THEN 0 ELSE too_big_msg + 1

\* the larger of two lengths (usize::max)
max(a, b) == IF a >= b THEN a ELSE b

Embeds == loc["embeds"]

EmbedsGoto(label, l) ==
    /\ pc' = [pc EXCEPT !["embeds"] = label]
    /\ loc' = [loc EXCEPT !["embeds"] = l]
    /\ UNCHANGED << server_queues, calls, tracks, pending_end, server_info,
                    max_previously_played, ret >>

\* Size::new(), lines 44-46: a new message with its own counter
SizeNew ==
    /\ pc["embeds"] = "idle"
    /\ Embeds # NoEmbeds
    /\ EmbedsGoto("idle", NoEmbeds)

\* TrimmedEmbed::new, too_big_msg, truncate_description_newline and
\* make_builder, lines 72-91 and 141-147: a builder on the shared Size
TrimmedEmbedNew(too_big_msg, newline) ==
    /\ pc["embeds"] = "idle"
    /\ Embeds.count < MaxEmbeds
    /\ EmbedsGoto("building",
                  [Embeds EXCEPT !.too_big_msg = too_big_msg,
                                 !.truncate_description_newline = newline,
                                 !.embed = DefaultEmbed,
                                 !.overflowed = FALSE,
                                 !.given = 0])

\* Size::add and what the builder does with its result (lines 152-156,
\* 166-170): the locals after a text given with given bytes was offered
\* with val bytes, embed being the embed when it fits
Added(given, val, embed) ==
    IF size_fits(Embeds.size, val, too_big_msg_length(Embeds.too_big_msg))
    THEN [Embeds EXCEPT !.size = @ + val, !.embed = embed, !.given = given]
    ELSE [Embeds EXCEPT !.overflowed = TRUE, !.given = given]

\* TrimmedEmbedBuilder::title, lines 148-158
EmbedTitle(len, back) ==
    LET s == truncate_string_to_char_boundary(Text(len), title_max, back)
    IN  /\ pc["embeds"] = "building"
        /\ Embeds.embed.title = None
        /\ EmbedsGoto("building",
                      Added(len, s.len, [Embeds.embed EXCEPT !.title = Some(s)]))

\* TrimmedEmbedBuilder::description, lines 159-172
EmbedDescription(len, back) ==
    LET max_len == max(description_max, Embeds.size)
        s == IF Embeds.truncate_description_newline
             THEN truncate_string_to_newline_boundary(Text(len), max_len, back)
             ELSE truncate_string_to_char_boundary(Text(len), max_len, back)
    IN  /\ pc["embeds"] = "building"
        /\ Embeds.embed.description = None
        /\ EmbedsGoto("described",
                      Added(len, s.len, [Embeds.embed EXCEPT !.description = Some(s)]))

\* description has returned, the builder goes on
EmbedDescribed ==
    /\ pc["embeds"] = "described"
    /\ EmbedsGoto("building", Embeds)

\* TrimmedEmbedBuilder::field and fields, lines 173-196, for one field
EmbedField(name_len, value_len, back) ==
    LET name == truncate_string_to_char_boundary(Text(name_len), field_name_max, back)
        value == truncate_string_to_char_boundary(Text(value_len), field_value_max, back)
    IN  /\ pc["embeds"] = "building"
        /\ Len(Embeds.embed.fields) < MaxFields
        /\ EmbedsGoto("building",
               Added(name_len + value_len, name.len + value.len,
                     [Embeds.embed EXCEPT !.fields =
                         Append(@, [name |-> name, value |-> value])]))

\* the sum of the lengths of a sequence of fields
RECURSIVE FieldsLen(_)
FieldsLen(fields) ==
    IF fields = << >>
    THEN 0
    ELSE Head(fields).name.len + Head(fields).value.len + FieldsLen(Tail(fields))

\* check_embed_lengths, lines 350-357: the lengths summed for one embed
EmbedLen(embed) ==
    (IF IsSome(embed.title) THEN Unwrap(embed.title).len ELSE 0)
    + (IF IsSome(embed.description) THEN Unwrap(embed.description).len ELSE 0)
    + (IF IsSome(embed.footer) THEN Unwrap(embed.footer).len ELSE 0)
    + FieldsLen(embed.fields)

\* Into<Embed> for TrimmedEmbedBuilder, lines 230-244: an embed that
\* overflowed gets too_big_msg as its footer; the embed is built
EmbedInto ==
    LET embed == IF Embeds.overflowed
                 THEN [Embeds.embed EXCEPT !.footer = Some(Text(Embeds.too_big_msg))]
                 ELSE Embeds.embed
    IN  /\ pc["embeds"] = "building"
        /\ EmbedsGoto("idle", [Embeds EXCEPT !.embed = embed,
                                             !.sum = @ + EmbedLen(embed),
                                             !.count = @ + 1])

\* a caller builds the embeds of messages, each message against one Size
EmbedsNext ==
    \/ SizeNew
    \* the lengths of the too_big_msg texts ("", "..." and the default one,
    \* line 78) and of the texts given to a builder
    \/ \E too_big_msg \in {0, 3, 45}, newline \in BOOLEAN :
          TrimmedEmbedNew(too_big_msg, newline)
    \/ \E len \in {300}, back \in Backs : EmbedTitle(len, back)
    \/ \E len \in {1000, 4000, 4096, 5000}, back \in Backs : EmbedDescription(len, back)
    \/ EmbedDescribed
    \/ \E name_len \in {300}, value_len \in {2000}, back \in Backs :
          EmbedField(name_len, value_len, back)
    \/ EmbedInto

EmbedsSpec == DefaultInit /\ [][EmbedsNext]_vars

\* The truncate functions on the bytes of a String.  A String is valid
\* UTF-8: an ASCII byte "a", a newline "nl", or a character of 2, 3 or 4
\* bytes, a lead byte followed by continuation bytes "c"; "." is the ASCII
\* byte of the trim texts.
char_bytes(c) ==
    CASE c = "a" -> << "a" >>
      [] c = "nl" -> << "nl" >>
      [] c = "w2" -> << "l2", "c" >>
      [] c = "w3" -> << "l3", "c", "c" >>
      [] c = "w4" -> << "l4", "c", "c", "c" >>

RECURSIVE encode(_)
encode(cs) == IF cs = << >> THEN << >> ELSE char_bytes(Head(cs)) \o encode(Tail(cs))

\* the Strings of at most MaxChars characters
Strings == {encode(cs) : cs \in UNION {[1..n -> {"a", "nl", "w2", "w3", "w4"}] : n \in 0..MaxChars}}

\* "..." and "\n...", lines 29 and 33
char_trim_str == << ".", ".", "." >>
newline_trim_str == << "nl", ".", ".", "." >>

\* str::is_char_boundary: the start, the end, or a byte that is not a
\* continuation byte (idx counts from 0)
is_char_boundary(s, idx) ==
    \/ idx = 0
    \/ idx = Len(s)
    \/ idx < Len(s) /\ s[idx + 1] # "c"

\* a wrong closure of line 29: the cut is made where idx starts
continue_char_never(s, idx) == FALSE

\* truncate_string_to_char_boundary, line 29: the closure continue_
continue_char(s, idx) == ~is_char_boundary(s, idx)

\* a wrong closure of lines 33-35: the cut is made where idx starts
continue_newline_never(s, idx) == FALSE

\* truncate_string_to_newline_boundary, lines 33-35: the closure continue_
continue_newline(s, idx) == s[idx + 1] # "nl" /\ idx > 0

\* truncate_string_backwards, lines 20-23: idx goes back while continue_
\* says so; boundary names the closure
RECURSIVE back_while(_, _, _)
back_while(s, idx, boundary) ==
    IF (IF boundary = "char" THEN continue_char(s, idx) ELSE continue_newline(s, idx))
    THEN back_while(s, idx - 1, boundary)
    ELSE idx

\* String::truncate, line 24: panics when idx is inside a character
truncate(s, idx) ==
    IF is_char_boundary(s, idx) THEN SubSeq(s, 1, idx) ELSE << "panic" >>

\* truncate_string_backwards, lines 6-26, on the bytes of s
truncate_bytes_backwards(s, max_len, trim_str, boundary) ==
    IF max_len < Len(trim_str)
    THEN << >>
    ELSE IF max_len >= Len(s)
    THEN s
    ELSE truncate(s, back_while(s, max_len - Len(trim_str), boundary)) \o trim_str

Trunc == loc["trunc"]

TruncGoto(label, l) ==
    /\ pc' = [pc EXCEPT !["trunc"] = label]
    /\ loc' = [loc EXCEPT !["trunc"] = l]
    /\ UNCHANGED << server_queues, calls, tracks, pending_end, server_info,
                    max_previously_played, ret >>

\* a call of truncate_string_to_char_boundary, lines 28-30, on the bytes of s
TruncateChar(s, max_len) ==
    /\ pc["trunc"] = "idle"
    /\ TruncGoto("done", [s |-> s, max_len |-> max_len, func |-> "char",
                          out |-> truncate_bytes_backwards(s, max_len, char_trim_str,
                                                           "char")])

\* a call of truncate_string_to_newline_boundary, lines 32-36, on the bytes of s
TruncateNewline(s, max_len) ==
    /\ pc["trunc"] = "idle"
    /\ TruncGoto("done", [s |-> s, max_len |-> max_len, func |-> "newline",
                          out |-> truncate_bytes_backwards(s, max_len, newline_trim_str,
                                                           "newline")])

\* the caller goes on
TruncDone ==
    /\ pc["trunc"] = "done"
    /\ TruncGoto("idle", NoTrunc)

TruncNext ==
    \/ \E str \in Strings, max_len \in 0..MaxTruncLen : TruncateChar(str, max_len)
    \/ \E str \in Strings, max_len \in 0..MaxTruncLen : TruncateNewline(str, max_len)
    \/ TruncDone

TruncSpec == DefaultInit /\ [][TruncNext]_vars

----
\* what the resolver can give: a song, no result, an error
Resolved(songs) == songs \cup {"empty", "err"}

\* one lock scope of the operation task t is running, the resolver giving
\* one of results
OpStep(t, results) ==
    \/ \E res \in results : GetSongData(t, res)
    \/ AddSongPush(t)
    \/ AddSongPlay(t)
    \/ NextSong(t)
    \/ NextSongPlay(t)
    \/ PlayIndex(t)
    \/ PlayIndexPlay(t)
    \/ SetLoopSong(t)
    \/ SetLoopQueue(t)
    \/ ResetQueue(t)
    \/ /\ Return(t)
       /\ UNCHANGED << server_queues, calls, tracks, pending_end, server_info,
                       max_previously_played >>

Step(t) == OpStep(t, Resolved(Songs))

\* task t is called with some operation and arguments
Start(t) ==
    \/ \E op \in {"add_song", "next_song", "set_loop_song", "set_loop_queue",
                    "reset_queue"}, g \in QueueGuilds : Call(t, op, g, 0)
    \/ \E g \in QueueGuilds, index \in 0..MaxQueue : Call(t, "play_index", g, index)

Environment ==
    \/ \E g \in QueueGuilds : Join(g)
    \/ \E g \in QueueGuilds : Leave(g)
    \/ \E g \in QueueGuilds, h \in 1..MaxTracks : TrackEnd(g, h)
    \/ \E g \in QueueGuilds, h \in 1..MaxTracks : HandleEnd(g, h)

Next ==
    \/ \E t \in Tasks : Start(t)
    \/ \E t \in Tasks : Step(t)
    \/ \E t \in Tasks, g \in Guilds : Call(t, "send_playlist_info", g, 0)
    \/ \E t \in Tasks, g \in Guilds : Call(t, "get_queue", g, 0)
    \/ \E t \in Tasks : GetQueue(t)
    \/ \E t \in Tasks : SendInfoBuild(t)
    \/ \E t \in Tasks : SendInfoStore(t)
    \/ \E t \in Tasks, g \in Guilds : Call(t, "leave", g, 0)
    \/ \E t \in Tasks : LeaveRemove(t) \/ LeaveUnset(t)
    \/ \E t \in Tasks, ok \in BOOLEAN : LeaveSay(t, ok) \/ LeaveUpdate(t, ok)
    \/ SchedStep
    \/ Environment
    \/ \E g \in QueueGuilds, h \in 1..MaxTracks : TrackError(g, h)

\* the whole program: every interleaving of the lock scopes of concurrent
\* operations, the commands and the transport's events
Spec == Init /\ [][Next]_vars

\* the queue engine under concurrent callers: the operations of Data, join
\* and leave; the resolver gives one song, the identity of the songs playing
\* no part in which index becomes current
QueueSongs == {"X"}

QueueNext ==
    \/ \E t \in Tasks : Start(t)
    \/ \E t \in Tasks : OpStep(t, Resolved(QueueSongs))
    \/ \E g \in QueueGuilds : Join(g)
    \/ \E g \in QueueGuilds : Leave(g)

QueueSpec == DefaultInit /\ [][QueueNext]_vars

Running(t) == pc[t] # "idle"

\* one caller, one operation at a time: a started operation runs to its end
\* before anything else happens; the bot joins and leaves between operations
SeqNext ==
    \/ Start("t1")
    \/ Step("t1")
    \/ ~Running("t1") /\ \E g \in QueueGuilds : Join(g)
    \/ ~Running("t1") /\ \E g \in QueueGuilds : Leave(g)

SeqSpec == DefaultInit /\ [][SeqNext]_vars

\* the same with the track-end events of the transport and their handler,
\* for any configured history length
EventNext ==
    \/ SeqNext
    \/ ~Running("t1") /\ \E g \in QueueGuilds, h \in 1..MaxTracks : TrackEnd(g, h)
    \/ \E g \in QueueGuilds, h \in 1..MaxTracks : HandleEnd(g, h)

EventSpec == Init /\ [][EventNext]_vars

\* one caller with the track-end and track-error events of the transport and
\* a status message set by send_playlist_info; the resolver gives one song
\* and the history length is the default
ErrorNext ==
    \/ Start("t1")
    \/ OpStep("t1", Resolved(QueueSongs))
    \/ ~Running("t1") /\ \E g \in QueueGuilds : Join(g)
    \/ ~Running("t1") /\ \E g \in QueueGuilds : Leave(g)
    \/ ~Running("t1") /\ \E g \in QueueGuilds, h \in 1..MaxTracks : TrackEnd(g, h)
    \/ \E g \in QueueGuilds, h \in 1..MaxTracks : HandleEnd(g, h)
    \/ ~Running("t1") /\ \E g \in QueueGuilds : Call("t1", "send_playlist_info", g, 0)
    \/ SendInfoBuild("t1")
    \/ SendInfoStore("t1")
    \/ ~Running("t1") /\ \E g \in QueueGuilds, h \in 1..MaxTracks : TrackError(g, h)

ErrorSpec == DefaultInit /\ [][ErrorNext]_vars

\* the leave command run by one caller that also adds songs and sends the
\* status message, with join and the track-end events and their handler at
\* any time
LeaveNext ==
    \/ \E op \in {"add_song", "send_playlist_info", "leave"}, g \in QueueGuilds :
          Call("t1", op, g, 0)
    \/ \E res \in Resolved(QueueSongs) : GetSongData("t1", res)
    \/ AddSongPush("t1")
    \/ AddSongPlay("t1")
    \/ SendInfoBuild("t1")
    \/ SendInfoStore("t1")
    \/ LeaveRemove("t1")
    \/ \E say_ok \in BOOLEAN : LeaveSay("t1", say_ok)
    \/ LeaveUnset("t1")
    \/ \E edit_ok \in BOOLEAN : LeaveUpdate("t1", edit_ok)
    \/ /\ Return("t1")
       /\ UNCHANGED << server_queues, calls, tracks, pending_end, server_info,
                       max_previously_played >>
    \/ \E g \in QueueGuilds : Join(g)
    \/ \E g \in QueueGuilds, h \in 1..MaxTracks : TrackEnd(g, h)
    \/ \E g \in QueueGuilds, h \in 1..MaxTracks : HandleEnd(g, h)

LeaveSpec == DefaultInit /\ [][LeaveNext]_vars

\* the operations that create, read and remove a guild's state, called by
\* one caller for either guild
ResetNext ==
    \/ \E op \in {"add_song", "set_loop_song", "set_loop_queue", "reset_queue",
                    "get_queue"}, g \in Guilds : Call("t1", op, g, 0)
    \/ \E res \in Resolved(QueueSongs) : GetSongData("t1", res)
    \/ AddSongPush("t1")
    \/ AddSongPlay("t1")
    \/ SetLoopSong("t1")
    \/ SetLoopQueue("t1")
    \/ ResetQueue("t1")
    \/ GetQueue("t1")
    \/ /\ Return("t1")
       /\ UNCHANGED << server_queues, calls, tracks, pending_end, server_info,
                       max_previously_played >>
    \/ ~Running("t1") /\ \E g \in Guilds : Join(g)

ResetSpec == DefaultInit /\ [][ResetNext]_vars

\* the operations that store a current (add_song, next_song, play_index)
\* under concurrent callers, in a guild that may be joined
RaceStart(t) ==
    \/ \E op \in {"add_song", "next_song"}, g \in QueueGuilds : Call(t, op, g, 0)
    \/ \E g \in QueueGuilds, index \in 0..MaxQueue : Call(t, "play_index", g, index)

RaceStep(t) ==
    \/ \E res \in Resolved(Songs) : GetSongData(t, res)
    \/ AddSongPush(t)
    \/ AddSongPlay(t)
    \/ NextSong(t)
    \/ NextSongPlay(t)
    \/ PlayIndex(t)
    \/ PlayIndexPlay(t)
    \/ /\ Return(t)
       /\ UNCHANGED << server_queues, calls, tracks, pending_end, server_info,
                       max_previously_played >>

RaceNext ==
    \/ \E t \in Tasks : RaceStart(t)
    \/ \E t \in Tasks : RaceStep(t)
    \/ \E g \in QueueGuilds : Join(g)

RaceSpec == DefaultInit /\ [][RaceNext]_vars

----
\* ------------------------------------------------------------------ locks
\* The steps of the model are the sections between the awaits of the code;
\* a process at a label is suspended at one of the awaits listed for it.

Scope(file, lock, first, last) ==
    [file |-> file, lock |-> lock, first |-> first, last |-> last]

\* the life of every lock guard in the source: from the line that takes the
\* lock to the last line before the guard is dropped, at the end of its
\* block or function
LockScopes ==
    {Scope("playlist_info.rs", "server_info", 21, 32),
     Scope("playlist_info.rs", "ServerInfo", 160, 163),
     Scope("playlist_info.rs", "commands_info", 177, 181),
     Scope("playlist_info.rs", "ServerInfo", 247, 248),
     Scope("playlist_info.rs", "server_info", 255, 263),
     Scope("playlist_info.rs", "ServerInfo", 258, 261),
     Scope("playlist_info.rs", "ServerInfo", 286, 287),
     Scope("commands.rs", "ServerInfo", 262, 265),
     Scope("events.rs", "ServerInfo", 59, 63),
     Scope("queue.rs", "server_queues", 80, 87),
     Scope("queue.rs", "server_queues", 91, 92),
     Scope("queue.rs", "server_queues", 96, 96),
     Scope("queue.rs", "server_queues", 112, 119),
     Scope("queue.rs", "server_queues", 137, 154),
     Scope("queue.rs", "server_queues", 174, 192),
     Scope("queue.rs", "server_queues", 211, 220),
     Scope("queue.rs", "server_queues", 224, 226),
     Scope("queue.rs", "server_queues", 230, 232)}

\* a wrong in_scope: a guard lives to the end of the file
in_scope_open(scope, file, line) == scope.file = file /\ scope.first <= line

\* a guard is dropped at the end of its block: the line lies in the scope
in_scope(scope, file, line) ==
    scope.file = file /\ scope.first <= line /\ line <= scope.last

\* the locks held at a line of a file
held(file, line) == {scope.lock : scope \in {x \in LockScopes : in_scope(x, file, line)}}

AwaitPoint(label, file, line, awaits) ==
    [label |-> label, file |-> file, line |-> line, awaits |-> awaits]

\* update_queue_messsage up to the state of the track: the awaits of
\* get_playlist_info_embeds and build_now_playing a process at label can be
\* suspended in
BuildAwaits(label) ==
    {AwaitPoint(label, "playlist_info.rs", 157, "call"),
     AwaitPoint(label, "playlist_info.rs", 166, "call"),
     AwaitPoint(label, "playlist_info.rs", 95, "transport"),
     AwaitPoint(label, "playlist_info.rs", 110, "transport"),
     AwaitPoint(label, "playlist_info.rs", 113, "call"),
     AwaitPoint(label, "playlist_info.rs", 174, "query")}

\* the .await lines a process at a label of the model is suspended at, each
\* with what is awaited: the edit of a message, a call into the transport
\* (the lock of the call, join, remove, get_info), the resolver, a reply to
\* the command, a sleep, or the async fn of this program that holds the
\* await actually suspended in
AwaitPoints ==
    \* the scheduler: run_message_updates and start_queue_message_update
    {AwaitPoint("start", "playlist_info.rs", 307, "sleep"),
     AwaitPoint("build", "playlist_info.rs", 284, "call"),
     AwaitPoint("build", "playlist_info.rs", 214, "call"),
     AwaitPoint("build", "playlist_info.rs", 157, "call"),
     AwaitPoint("build", "playlist_info.rs", 166, "call"),
     AwaitPoint("build", "playlist_info.rs", 95, "transport"),
     AwaitPoint("get_info", "playlist_info.rs", 284, "call"),
     AwaitPoint("get_info", "playlist_info.rs", 214, "call"),
     AwaitPoint("get_info", "playlist_info.rs", 166, "call"),
     AwaitPoint("get_info", "playlist_info.rs", 113, "call"),
     AwaitPoint("get_info", "playlist_info.rs", 81, "call"),
     AwaitPoint("get_info", "playlist_info.rs", 110, "transport"),
     AwaitPoint("edit", "playlist_info.rs", 284, "call"),
     AwaitPoint("edit", "playlist_info.rs", 214, "call"),
     AwaitPoint("edit", "playlist_info.rs", 174, "query"),
     AwaitPoint("edit", "playlist_info.rs", 219, "edit_message"),
     \* add_song
     AwaitPoint("add_song", "queue.rs", 107, "call"),
     AwaitPoint("add_song", "queue.rs", 48, "query"),
     AwaitPoint("add_song", "queue.rs", 62, "resolver"),
     AwaitPoint("add_play", "queue.rs", 124, "query"),
     AwaitPoint("add_play", "queue.rs", 125, "call"),
     AwaitPoint("add_play", "queue.rs", 210, "transport"),
     \* play_index
     AwaitPoint("pi_play", "queue.rs", 197, "query"),
     AwaitPoint("pi_play", "queue.rs", 198, "call"),
     AwaitPoint("pi_play", "queue.rs", 210, "transport"),
     \* send_playlist_info
     AwaitPoint("send_playlist_info", "playlist_info.rs", 232, "query"),
     AwaitPoint("send_playlist_info", "playlist_info.rs", 235, "call"),
     AwaitPoint("send_reply", "playlist_info.rs", 239, "reply"),
     AwaitPoint("send_reply", "playlist_info.rs", 243, "reply"),
     AwaitPoint("send_reply", "playlist_info.rs", 246, "call"),
     \* leave
     AwaitPoint("leave", "commands.rs", 249, "query"),
     AwaitPoint("leave", "commands.rs", 253, "transport"),
     AwaitPoint("leave_say", "commands.rs", 254, "reply"),
     AwaitPoint("leave_say", "commands.rs", 257, "reply"),
     AwaitPoint("leave_unset", "commands.rs", 261, "call"),
     AwaitPoint("leave_update", "commands.rs", 270, "call"),
     AwaitPoint("leave_update", "playlist_info.rs", 214, "call"),
     AwaitPoint("leave_update", "playlist_info.rs", 219, "edit_message")}
    \cup BuildAwaits("send_playlist_info") \cup BuildAwaits("leave_update")

\* the awaits process p can be suspended at in this state
Awaiting(p) == {a \in AwaitPoints : a.label = pc[p]}

\* the scheduler beside one caller of the commands that play a song with
\* play_index_unchecked, send the status message and leave; the bot joins
\* between commands
LockNext ==
    \/ \E op \in {"add_song", "send_playlist_info", "leave"}, g \in QueueGuilds :
          Call("t1", op, g, 0)
    \/ \E index \in 0..MaxQueue, g \in QueueGuilds : Call("t1", "play_index", g, index)
    \/ \E res \in Resolved(QueueSongs) : GetSongData("t1", res)
    \/ AddSongPush("t1")
    \/ AddSongPlay("t1")
    \/ PlayIndex("t1")
    \/ PlayIndexPlay("t1")
    \/ SendInfoBuild("t1")
    \/ SendInfoStore("t1")
    \/ LeaveRemove("t1")
    \/ \E say_ok \in BOOLEAN : LeaveSay("t1", say_ok)
    \/ LeaveUnset("t1")
    \/ \E edit_ok \in BOOLEAN : LeaveUpdate("t1", edit_ok)
    \/ /\ Return("t1")
       /\ UNCHANGED << server_queues, calls, tracks, pending_end, server_info,
                       max_previously_played >>
    \/ ~Running("t1") /\ \E g \in QueueGuilds : Join(g)
    \/ SchedStep

LockSpec == DefaultInit /\ [][LockNext]_vars

\* The order in which the locks are taken.  A process runs the lock
\* operations of a command, of the track-end handler or of a scheduler
\* cycle one after another; loc holds the operations still to run and the
\* locks held.  The locks: the queue map lock "Q" (Data::server_queues), the
\* server_info map lock "M", the lock of commands_info "C", the mutex of a
\* guild's ServerInfo "S" and the mutex of a guild's call "H".
Lock(name, g) == [name |-> name, g |-> g]
Acq(lock, mode) == [op |-> "acq", lock |-> lock, mode |-> mode]
Rel(lock) == [op |-> "rel", lock |-> lock, mode |-> "-"]

\* a lock taken and dropped again with nothing taken in between
Scoped(lock, mode) == << Acq(lock, mode), Rel(lock) >>

\* a wrong get_server_info: the read guard is kept when the write lock is
\* taken
get_server_info_kept(hit) ==
    IF hit
    THEN Scoped(Lock("M", "-"), "r")
    ELSE << Acq(Lock("M", "-"), "r"), Acq(Lock("M", "-"), "w"),
            Rel(Lock("M", "-")), Rel(Lock("M", "-")) >>

\* get_server_info, lines 20-33: the read lock, and when the guild is not
\* in the map (hit is false) drop(map) and the write lock
get_server_info(hit) ==
    IF hit
    THEN Scoped(Lock("M", "-"), "r")
    ELSE Scoped(Lock("M", "-"), "r") \o Scoped(Lock("M", "-"), "w")

\* build_now_playing, lines 92-95: the mutex of the call, when there is one
build_now_playing(g, in_channel) ==
    IF in_channel THEN Scoped(Lock("H", g), "x") ELSE << >>

\* get_playlist_info_embeds, lines 157-182
get_playlist_info_embeds(g, hit, in_channel) ==
    get_server_info(hit) \o Scoped(Lock("S", g), "x")
    \o build_now_playing(g, in_channel) \o Scoped(Lock("C", "-"), "r")

\* send_playlist_info, lines 232-249, behind the commands queue, play and
\* skip: the location is stored when the bot is in the channel
send_playlist_info(g, hit, in_channel) ==
    get_playlist_info_embeds(g, hit, in_channel)
    \o (IF in_channel
        THEN get_server_info(TRUE) \o Scoped(Lock("S", g), "x")
        ELSE << >>)

\* play and skip, commands.rs lines 160-167 and 305-308: the mutex of the
\* call, then send_playlist_info
play(g, hit) == Scoped(Lock("H", g), "x") \o send_playlist_info(g, hit, TRUE)

\* leave, commands.rs lines 260-271: the pointer is unset, then the final
\* update
leave(g, hit) ==
    get_server_info(hit) \o Scoped(Lock("S", g), "x")
    \o get_playlist_info_embeds(g, TRUE, FALSE)

\* TrackEndNotifier::act, events.rs lines 58-63
track_end(g, hit) == get_server_info(hit) \o Scoped(Lock("S", g), "x")

\* play_index_unchecked, queue.rs lines 210-220: the mutex of the call, then
\* the queue map's write lock; the guards are dropped in reverse order
play_index_unchecked_locks(g) ==
    << Acq(Lock("H", g), "x"), Acq(Lock("Q", "-"), "w"),
       Rel(Lock("Q", "-")), Rel(Lock("H", g)) >>

\* add_song, queue.rs lines 111-125: the push under the write lock, then
\* play_index_unchecked when nothing was current (first)
add_song(g, first) ==
    Scoped(Lock("Q", "-"), "w") \o (IF first THEN play_index_unchecked_locks(g) ELSE << >>)

\* play_index, queue.rs lines 172-198
play_index(g) == Scoped(Lock("Q", "-"), "r") \o play_index_unchecked_locks(g)

\* run_message_updates, lines 254-264: the map's read lock with the mutex
\* of every guild of the map inside, in the order of the iterator
RECURSIVE snapshot_guilds(_)
snapshot_guilds(order) ==
    IF order = << >> THEN << >>
    ELSE Scoped(Lock("S", Head(order)), "x") \o snapshot_guilds(Tail(order))

\* run_message_updates, lines 276-289: the updates of the guilds of the
\* snapshot one after another, the mutex taken again after a failed one
RECURSIVE update_guilds(_, _, _)
update_guilds(order, in_channel, success) ==
    IF order = << >> THEN << >>
    ELSE get_playlist_info_embeds(Head(order), TRUE, in_channel)
         \o (IF success THEN << >> ELSE Scoped(Lock("S", Head(order)), "x"))
         \o update_guilds(Tail(order), in_channel, success)

\* run_message_updates, lines 253-290
run_message_updates(order, in_channel, success) ==
    << Acq(Lock("M", "-"), "r") >> \o snapshot_guilds(order) \o << Rel(Lock("M", "-")) >>
    \o update_guilds(order, in_channel, success)

\* what a command or the track-end handler does with the locks
Programs ==
    UNION {{send_playlist_info(g, hit, in_channel) : in_channel \in BOOLEAN}
           \cup {play(g, hit), leave(g, hit), track_end(g, hit),
                  add_song(g, hit), play_index(g)} :
           g \in Guilds, hit \in BOOLEAN}

Locking(p) == loc[p]

\* the locks process p holds
HeldBy(p) == IF pc[p] = "locking" THEN Locking(p).held ELSE {}

\* process p is at the acquisition of a lock
Acquiring(p) ==
    pc[p] = "locking" /\ Locking(p).prog # << >> /\ Head(Locking(p).prog).op = "acq"

\* parking_lot's RwLock and Mutex, tokio's Mutex: a write lock or a mutex is
\* taken when nobody holds the lock; a read lock when no writer holds it and
\* no other process is waiting to write
CanAcquire(p, a) ==
    IF a.mode = "r"
    THEN /\ \A q \in Procs :
               \A h \in HeldBy(q) : h.lock = a.lock => h.mode = "r"
         /\ \A q \in Procs \ {p} :
               ~(Acquiring(q) /\ Head(Locking(q).prog).lock = a.lock
                              /\ Head(Locking(q).prog).mode = "w")
    ELSE \A q \in Procs : \A h \in HeldBy(q) : h.lock # a.lock

\* process p can take its next step
CanStep(p) ==
    /\ pc[p] = "locking"
    /\ Acquiring(p) => CanAcquire(p, Head(Locking(p).prog))

LockGoto(p, label, l) ==
    /\ pc' = [pc EXCEPT ![p] = label]
    /\ loc' = [loc EXCEPT ![p] = l]
    /\ UNCHANGED << server_queues, calls, tracks, pending_end, server_info,
                    max_previously_played, ret >>

\* a command or the handler of a track's end starts in task t
LockCall(t, prog) ==
    /\ pc[t] = "idle"
    /\ LockGoto(t, "locking", [prog |-> prog, held |-> {}])

\* the scheduler starts a cycle
LockCycle(order, in_channel, success) ==
    /\ pc["sched"] = "start"
    /\ LockGoto("sched", "locking",
                [prog |-> run_message_updates(order, in_channel, success), held |-> {}])

\* process p takes the lock it is waiting for, or drops one
LockStep(p) ==
    LET a == Head(Locking(p).prog)
    IN  /\ pc[p] = "locking"
        /\ Locking(p).prog # << >>
        /\ CanStep(p)
        /\ LockGoto(p, "locking",
                    [prog |-> Tail(Locking(p).prog),
                     held |-> IF a.op = "acq"
                              THEN Locking(p).held \cup {[lock |-> a.lock, mode |-> a.mode]}
                              ELSE {h \in Locking(p).held : h.lock # a.lock}])

\* the command, the handler or the cycle is over
LockDone(p) ==
    /\ pc[p] = "locking"
    /\ Locking(p).prog = << >>
    /\ LockGoto(p, IF p = "sched" THEN "start" ELSE "idle",
                IF p = "sched" THEN NoSched ELSE NoLoc)

DeadlockNext ==
    \/ \E t \in Tasks, prog \in Programs : LockCall(t, prog)
    \/ \E order \in UNION {Perms(set) : set \in SUBSET Guilds},
          in_channel \in BOOLEAN, success \in BOOLEAN :
          LockCycle(order, in_channel, success)
    \/ \E p \in Tasks \cup {"sched"} : LockStep(p)
    \/ \E p \in Tasks \cup {"sched"} : LockDone(p)

DeadlockSpec == DefaultInit /\ [][DeadlockNext]_vars

----
\* ------------------------------------------------------------ properties

\* task t leaves the lock scope it is in
Leaves(t, label) == pc[t] = label /\ pc'[t] # label

\* C1: in every reachable state, a guild's current playback, when there is
\* one, has an index strictly below the number of entries of the guild's
\* queue, whatever the interleaving of add_song, play_index, next_song, the
\* loop toggles and reset_queue.
C1_CurrentIndexValid ==
    \A g \in Guilds :
        IsSome(server_queues[g]) /\ IsSome(Unwrap(server_queues[g]).current)
        => Unwrap(Unwrap(server_queues[g]).current).index
               < Len(Unwrap(server_queues[g]).songs)

\* a current at the last entry of a full queue while both tasks are inside
\* an operation that is about to store a current
C1_Witness ==
    \E g \in Guilds :
        /\ IsSome(QueueOrDefault(g).current)
        /\ Len(QueueOrDefault(g).songs) = MaxQueue
        /\ Unwrap(QueueOrDefault(g).current).index = MaxQueue - 1
        /\ pc["t1"] = "next_play"
        /\ pc["t2"] = "pi_play"

\* C2 as stated: add_song on a guild without current appends the entry,
\* starts it on the transport, makes it current and returns NowPlaying;
\* with a current it appends the entry, returns AddedToQueue and leaves
\* current (index and handle) unchanged.
AddSongContract(needs_voice) ==
    \A t \in Tasks :
        LET g == loc[t].g
            q == QueueOrDefault(g)
            q2 == QueueOrDefault(g)'
        IN  /\ Leaves(t, "add_push") =>
                /\ q2.songs = Append(q.songs, loc[t].song)
                /\ tracks' = tracks
                /\ q2.current = q.current
                /\ IsSome(q.current) =>
                       /\ pc'[t] = "return"
                       /\ ret'[t] = Result("AddedToQueue", loc[t].song)
                /\ ~IsSome(q.current) => pc'[t] = "add_play"
            /\ Leaves(t, "add_play") /\ (needs_voice => calls[g] > 0) =>
                /\ pc'[t] = "return"
                /\ ret'[t] = Result("NowPlaying", loc[t].song)
                /\ q2.songs = q.songs
                /\ song_at(q2, Len(q2.songs) - 1) = loc[t].song
                /\ tracks'[g] = Append(tracks[g],
                                       [song |-> loc[t].song, state |-> "playing"])
                /\ q2.current = Some([index |-> Len(q.songs) - 1,
                                      handle |-> Len(tracks'[g])])

C2_AsStated == [][AddSongContract(FALSE)]_vars

\* C2 amended: the NowPlaying half holds when the guild has a voice session
\* (without one add_song returns the not-in-a-voice-channel error).
C2_AddSong == [][AddSongContract(TRUE)]_vars

\* add_song has just returned AddedToQueue for the second entry while the
\* first one, started by an earlier add_song, is current and playing
C2_Witness ==
    \E g \in Guilds :
        /\ pc["t1"] = "return"
        /\ ret["t1"].kind = "AddedToQueue"
        /\ Len(QueueOrDefault(g).songs) = 2
        /\ QueueOrDefault(g).current = Some([index |-> 0, handle |-> 1])
        /\ Len(tracks[g]) = 1
        /\ tracks[g][1].state = "playing"
        /\ tracks[g][1].song = QueueOrDefault(g).songs[1]

\* C3: concurrent next_song, play_index and add_song of one guild are
\* linearizable: when next_song stores its new current, the index it stores
\* is the one next_song computes from the queue state it stores it into (the
\* state left by the operations that completed before), never one computed
\* from a current that another operation has replaced since.
C3_AsStated ==
    [][\A t \in Tasks :
          LET q == QueueOrDefault(loc[t].g)
          IN  pc[t] = "next_play" /\ pc'[t] = "return" /\ ret'[t].kind = "OkSome"
              => /\ IsSome(q.current)
                 /\ ~past_end(q, new_index(q))
                 /\ new_index(q) = loc[t].idx]_vars

\* C4: next_song on a guild with loop_song set and a current playback leaves
\* current.index as it was, whatever loop_queue and the position of the index;
\* with a voice session the entry at that index is started again.
C4_LoopSong ==
    [][\A t \in Tasks :
          LET g == loc[t].g
              q == QueueOrDefault(g)
              q2 == QueueOrDefault(g)'
          IN  /\ pc[t] \in {"next_song", "next_play"}
              /\ pc'[t] # pc[t]
              /\ q.loop_song
              /\ IsSome(q.current)
              => /\ IsSome(q2.current)
                 /\ Unwrap(q2.current).index = Unwrap(q.current).index
                 /\ pc[t] = "next_song" => pc'[t] = "next_play"
                 /\ pc[t] = "next_play" /\ calls[g] > 0 =>
                        /\ ret'[t] = Result("OkSome",
                                            q.songs[Unwrap(q.current).index + 1])
                        /\ tracks'[g] = Append(tracks[g],
                               [song |-> q.songs[Unwrap(q.current).index + 1],
                                state |-> "playing"])]_vars

\* next_song has replayed entry 0 of a two-entry queue with loop_song set
C4_Witness ==
    \E g \in Guilds :
        /\ pc["t1"] = "return"
        /\ ret["t1"].kind = "OkSome"
        /\ QueueOrDefault(g).loop_song
        /\ Len(QueueOrDefault(g).songs) = 2
        /\ QueueOrDefault(g).current = Some([index |-> 0, handle |-> 2])
        /\ tracks[g][1].song = tracks[g][2].song
        /\ tracks[g][2].state = "playing"

\* C5 as stated: next_song with loop_queue set, loop_song clear and current
\* at the last entry sets current.index to 0, at any other entry to
\* current.index + 1.
NextSongLoopQueue(needs_voice) ==
    \A t \in Tasks :
        LET g == loc[t].g
            q == QueueOrDefault(g)
            q2 == QueueOrDefault(g)'
            i == Unwrap(q.current).index
            target == IF i = Len(q.songs) - 1 THEN 0 ELSE i + 1
        IN  /\ pc[t] \in {"next_song", "next_play"}
            /\ pc'[t] # pc[t]
            /\ q.loop_queue
            /\ ~q.loop_song
            /\ IsSome(q.current)
            => /\ pc[t] = "next_song" =>
                   /\ pc'[t] = "next_play"
                   /\ loc'[t].idx = target
                   /\ q2 = q
               /\ pc[t] = "next_play" /\ (needs_voice => calls[g] > 0) =>
                   /\ IsSome(q2.current)
                   /\ Unwrap(q2.current).index = target
                   /\ ret'[t] = Result("OkSome", q.songs[target + 1])

C5_AsStated == [][NextSongLoopQueue(FALSE)]_vars

\* C5 amended: the same when the guild has a voice session (without one
\* next_song returns an error and current stays where it was).
C5_LoopQueue == [][NextSongLoopQueue(TRUE)]_vars

\* next_song has wrapped from the last entry of a two-entry queue to entry 0
C5_Witness ==
    \E g \in Guilds :
        /\ pc["t1"] = "return"
        /\ ret["t1"].kind = "OkSome"
        /\ QueueOrDefault(g).loop_queue
        /\ ~QueueOrDefault(g).loop_song
        /\ Len(QueueOrDefault(g).songs) = 2
        /\ QueueOrDefault(g).current = Some([index |-> 0, handle |-> 2])
        /\ tracks[g][1].song = QueueOrDefault(g).songs[2]
        /\ tracks[g][2].song = QueueOrDefault(g).songs[1]

\* C6: next_song with both loop flags clear and current at the last entry
\* sets current to None, starts nothing on the transport, leaves the entries
\* as they are and returns no entry.
C6_QueueEnd ==
    [][\A t \in Tasks :
          LET g == loc[t].g
              q == QueueOrDefault(g)
              q2 == QueueOrDefault(g)'
          IN  /\ Leaves(t, "next_song")
              /\ ~q.loop_song
              /\ ~q.loop_queue
              /\ IsSome(q.current)
              /\ Unwrap(q.current).index = Len(q.songs) - 1
              => /\ pc'[t] = "return"
                 /\ ret'[t] = Result("OkNone", "none")
                 /\ q2.current = None
                 /\ q2.songs = q.songs
                 /\ tracks' = tracks]_vars

\* next_song has just returned no entry: the queue still holds its two
\* entries, nothing is current and the last track started is still the second
C6_Witness ==
    \E g \in Guilds :
        /\ pc["t1"] = "return"
        /\ ret["t1"].kind = "OkNone"
        /\ IsSome(server_queues[g])
        /\ QueueOrDefault(g).current = None
        /\ Len(QueueOrDefault(g).songs) = 2
        /\ Len(tracks[g]) = 2

\* C7: play_index with an index at or past the number of entries returns an
\* error and leaves the guild's entries, current, loop flags and the
\* transport (no pause, no play) unchanged.
C7_PlayIndexOutOfRange ==
    [][\A t \in Tasks :
          Leaves(t, "play_index")
          /\ loc[t].idx >= Len(QueueOrDefault(loc[t].g).songs)
          => /\ pc'[t] = "return"
             /\ ret'[t].kind \in {"ErrIndex", "ErrNothingPlaying"}
             /\ server_queues' = server_queues
             /\ tracks' = tracks]_vars

\* play_index has just refused an index past the end while a track is
\* current and playing
C7_Witness ==
    \E g \in Guilds :
        /\ pc["t1"] = "return"
        /\ ret["t1"].kind = "ErrIndex"
        /\ IsSome(QueueOrDefault(g).current)
        /\ tracks[g][Unwrap(QueueOrDefault(g).current).handle].state = "playing"

\* C8 as stated: from an empty guild state, add_song(X), add_song(Y),
\* next_song, next_song give in order NowPlaying(X) with current.index 0,
\* AddedToQueue(Y) with current.index still 0, current.index 1 (Y), and no
\* current.  Each line below is one call of the scenario, taken from the
\* state the line before leaves.
Scenario(needs_voice) ==
    \A t \in Tasks, x \in Songs, y \in Songs :
        LET g == loc[t].g
            q == QueueOrDefault(g)
            q2 == QueueOrDefault(g)'
            plain == ~q.loop_song /\ ~q.loop_queue
            voice == needs_voice => calls[g] > 0
            at(i) == IsSome(q.current) /\ Unwrap(q.current).index = i
        IN  /\ Leaves(t, "add_push") /\ loc[t].song = x /\ q = DefaultQueue
               => pc'[t] = "add_play" /\ q2 = [DefaultQueue EXCEPT !.songs = << x >>]
            /\ Leaves(t, "add_play") /\ q = [DefaultQueue EXCEPT !.songs = << x >>]
               /\ voice
               => /\ ret'[t] = Result("NowPlaying", x)
                  /\ q2.songs = << x >>
                  /\ IsSome(q2.current) /\ Unwrap(q2.current).index = 0
                  /\ ~q2.loop_song /\ ~q2.loop_queue
            /\ Leaves(t, "add_push") /\ loc[t].song = y /\ q.songs = << x >>
               /\ plain /\ at(0)
               => /\ ret'[t] = Result("AddedToQueue", y)
                  /\ q2 = [q EXCEPT !.songs = << x, y >>]
            /\ Leaves(t, "next_song") /\ q.songs = << x, y >> /\ plain /\ at(0)
               => pc'[t] = "next_play" /\ q2 = q
            /\ Leaves(t, "next_play") /\ q.songs = << x, y >> /\ plain /\ at(0)
               /\ voice
               => /\ ret'[t] = Result("OkSome", y)
                  /\ q2.songs = << x, y >>
                  /\ IsSome(q2.current) /\ Unwrap(q2.current).index = 1
                  /\ ~q2.loop_song /\ ~q2.loop_queue
            /\ Leaves(t, "next_song") /\ q.songs = << x, y >> /\ plain /\ at(1)
               => /\ ret'[t] = Result("OkNone", "none")
                  /\ q2 = [q EXCEPT !.current = None]

C8_AsStated == [][Scenario(FALSE)]_vars

\* C8 amended: the same with the bot in the guild's voice channel.
C8_Scenario == [][Scenario(TRUE)]_vars

\* the end of the scenario: X and Y were started in this order, both entries
\* are still queued and the second next_song has returned no entry
C8_Witness ==
    \E g \in Guilds :
        /\ pc["t1"] = "return"
        /\ ret["t1"].kind = "OkNone"
        /\ server_queues[g] = Some([DefaultQueue EXCEPT !.songs = << "X", "Y" >>])
        /\ tracks[g] = << [song |-> "X", state |-> "playing"],
                          [song |-> "Y", state |-> "playing"] >>

\* one end event of track h of guild g is handled in this step
Handled(g, h) == pending_end'[g][h] = pending_end[g][h] - 1

\* C9 as stated: when the end handler has handled the end of the current
\* track of a guild that is at entry i, has an entry after i and does not
\* loop the song, the guild is at entry i + 1.
C9_AsStated ==
    [][\A g \in Guilds, h \in 1..MaxTracks :
          LET q == QueueOrDefault(g)
              q2 == QueueOrDefault(g)'
          IN  /\ Handled(g, h)
              /\ IsSome(q.current)
              /\ Unwrap(q.current).handle = h
              /\ ~q.loop_song
              /\ Unwrap(q.current).index + 1 < Len(q.songs)
              => /\ IsSome(q2.current)
                 /\ Unwrap(q2.current).index = Unwrap(q.current).index + 1]_vars

Min(a, b) == IF a < b THEN a ELSE b

\* C10: when a track-end event has been handled, previous_songs holds at most
\* max_previously_played songs, they are the newest ones of the history in
\* their order, and the song of the ended track is the last of them (when
\* max_previously_played >= 1); the pending events of a guild are handled in
\* any order.
C10_History ==
    [][\A g \in Guilds, h \in 1..MaxTracks :
          LET prev == InfoOrDefault(g).previous_songs
              now == InfoOrDefault(g)'.previous_songs
              all == Append(prev, tracks[g][h].song)
              keep == Min(Len(all), max_previously_played)
          IN  Handled(g, h)
              => /\ Len(now) <= max_previously_played
                 /\ now = SubSeq(all, Len(all) - keep + 1, Len(all))
                 /\ max_previously_played >= 1 => now[Len(now)] = tracks[g][h].song
                 /\ Len(prev) <= max_previously_played]_vars

\* with room for one song, the ends of X and of Y have both been handled
\* and only the newer one is left
C10_Witness ==
    \E g \in Guilds :
        /\ max_previously_played = 1
        /\ Len(tracks[g]) = 2
        /\ tracks[g][1] = [song |-> "X", state |-> "ended"]
        /\ tracks[g][2] = [song |-> "Y", state |-> "ended"]
        /\ calls[g] > 0
        /\ \A h \in 1..MaxTracks : pending_end[g][h] = 0
        /\ InfoOrDefault(g).previous_songs = << "Y" >>

\* the scheduler leaves the place label of its loop
SchedLeaves(label) == pc["sched"] = label /\ pc'["sched"] # label

\* the guild the scheduler is updating
SchedGuild == Head(Sched.to_update).g

\* the scheduler is done with a guild whose update counted as done (ok):
\* nothing of server_info changes; when it did not, the pointer is unset
PointerCleared(ok) ==
    SchedLeaves("edited")
    => IF ok
       THEN server_info' = server_info
       ELSE \A g \in Guilds :
                IF g = SchedGuild
                THEN server_info'[g] =
                        Some([InfoOrDefault(g) EXCEPT !.status_message = None])
                ELSE server_info'[g] = server_info[g]

\* C11 as stated: in a scheduler cycle the status pointer of a guild is
\* unset if and only if the edit of the guild's status message failed.
C11_AsStated == [][PointerCleared(Sched.edit_ok)]_vars

\* C11 amended: the pointer is unset if and only if the edit failed or the
\* bot was not in the guild's voice channel when the message was built.
C11_PointerCleared ==
    [][PointerCleared(Sched.edit_ok /\ ~Sched.not_in_channel)]_vars

\* the edit of a guild's status message has succeeded, the bot was not in
\* the guild's voice channel, and the pointer that is now unset is still set
C11_Witness ==
    /\ pc["sched"] = "edited"
    /\ Sched.edit_ok
    /\ Sched.not_in_channel
    /\ IsSome(InfoOrDefault(SchedGuild).status_message)

\* C12 as stated: when the scheduler issues the edit of a guild's status
\* message, the guild's status pointer is set.
C12_AsStated ==
    [][SchedLeaves("edit") => IsSome(InfoOrDefault(SchedGuild).status_message)]_vars

\* the attempt of try_call_hanging with number i did not answer before its
\* timeout
TimedOut(attempts, i) == attempts[i].kind = "hang" \/ attempts[i].ms >= attempt_timeout_ms

\* the scheduler takes a turn of the loop of try_call_hanging and its cycle
\* is not dropped in it
TryCallTurn ==
    /\ pc["sched"] = "get_info"
    /\ pc'["sched"] \in {"get_info", "got_info"}
    /\ loc'["sched"] # loc["sched"]

\* C13: try_call_hanging around an operation that never answers starts it
\* three times, gives every attempt one second, then returns None, three
\* seconds after its start, and never starts a fourth attempt.
C13_Exhausted ==
    [][/\ Len(Sched.attempts) <= 3
       /\ TryCallTurn
          /\ (\A i \in 1..Len(Sched.attempts) : Sched.attempts[i].kind = "hang")
          /\ loc'["sched"].attempts[Len(Sched.attempts) + 1].kind = "hang"
          => /\ loc'["sched"].call_ms = 1000 * (Len(Sched.attempts) + 1)
             /\ loc'["sched"].state = None
             /\ pc'["sched"] = IF Len(Sched.attempts) = 2 THEN "got_info" ELSE "get_info"]_vars

\* try_call_hanging has returned None after three attempts that never
\* answered
C13_Witness ==
    /\ pc["sched"] = "got_info"
    /\ Sched.state = None
    /\ Len(Sched.attempts) = 3
    /\ \A i \in 1..3 : Sched.attempts[i].kind = "hang"
    /\ Sched.call_ms = 3000

\* C14: try_call_hanging returns Some(v) with v the answer of the last
\* attempt it started, which answered within its second, every attempt
\* before it having timed out; an attempt that answers before its timeout
\* ends the loop; None is returned only when three attempts timed out.
C14_FirstAnswer ==
    [][TryCallTurn
       => LET attempts == loc'["sched"].attempts
              k == Len(attempts)
              state == loc'["sched"].state
          IN  /\ k = Len(Sched.attempts) + 1
              /\ \A j \in 1..(k - 1) : TimedOut(attempts, j)
              /\ pc'["sched"] = "get_info" => TimedOut(attempts, k) /\ k < 3
              /\ pc'["sched"] = "got_info" /\ IsSome(state)
                 => /\ attempts[k].kind = "ok"
                    /\ attempts[k].ms <= attempt_timeout_ms
                    /\ Unwrap(state) = attempts[k].value
              /\ pc'["sched"] = "got_info" /\ ~IsSome(state)
                 => k = 3 /\ TimedOut(attempts, k)]_vars

\* try_call_hanging has returned the answer of its third attempt, the first
\* one having hung and the second one having answered too late
C14_Witness ==
    /\ pc["sched"] = "got_info"
    /\ Sched.state = Some("p1")
    /\ Len(Sched.attempts) = 3
    /\ Sched.attempts[1].kind = "hang"
    /\ Sched.attempts[2] = [kind |-> "ok", ms |-> 2000, value |-> "p1"]
    /\ Sched.attempts[3] = [kind |-> "ok", ms |-> 0, value |-> "p1"]

\* C15 as stated: the scheduler starts a new cycle again and again, also
\* when get_info hangs: whenever none of the three attempts of
\* try_call_hanging has answered, a next cycle starts later on.
C15_AsStated ==
    (pc["sched"] = "got_info" /\ Sched.state = None) ~> (pc["sched"] = "start")

\* a step of add_song after the resolver, in a guild without a call
NoVoiceAddSong(t, g) ==
    /\ loc[t].g = g
    /\ calls[g] = 0
    /\ Leaves(t, "add_push") \/ Leaves(t, "add_play")

\* C16 as stated: add_song for a guild without a voice session fails with
\* the not-in-a-voice-channel error and leaves the guild's queue as it was:
\* the resolved entry is not appended and current is not changed.
C16_AsStated ==
    [][\A t \in Tasks, g \in QueueGuilds :
          NoVoiceAddSong(t, g)
          => /\ QueueOrDefault(g)' = QueueOrDefault(g)
             /\ pc'[t] = "return" => ret'[t].kind = "ErrNotInVoice"]_vars

\* C17 as stated: when the resolver finds nothing or fails, add_song returns
\* a resolution error to its caller and the queues are as they were; when
\* it finds a song, add_song goes on with it.
C17_AsStated ==
    [][\A t \in Tasks :
          Leaves(t, "add_song")
          => \/ pc'[t] = "add_push" /\ loc'[t].song \in Songs
             \/ /\ pc'[t] = "return"
                /\ ret'[t].kind = "ErrResolution"
                /\ server_queues' = server_queues]_vars

\* play_index is at its check of index on guild g, the index is that of an
\* entry of the guild's queue
PlayIndexValid(t, g) ==
    /\ loc[t].g = g
    /\ Leaves(t, "play_index")
    /\ IsSome(server_queues[g])
    /\ song_in_range(Unwrap(server_queues[g]), loc[t].idx)

\* C18 as stated: play_index with a valid index on a guild with a current
\* playback goes on to start the requested entry also when the transport
\* fails to pause the previous track.
C18_AsStated ==
    [][\A t \in Tasks, g \in QueueGuilds :
          /\ PlayIndexValid(t, g)
          /\ IsSome(QueueOrDefault(g).current)
          /\ ~pause_ok(g, Unwrap(QueueOrDefault(g).current).handle)
          => pc'[t] = "pi_play" /\ loc'[t] = loc[t]]_vars

\* C19 as stated: play_index(g, i) with i below the number of entries and a
\* voice session pauses the previously current track, if there is one, then
\* starts entry i on the transport, sets current to index i with the handle
\* of the track started, returns entry i and leaves the entries and both
\* loop flags as they were.
C19_AsStated ==
    [][\A t \in Tasks, g \in QueueGuilds :
          LET q == QueueOrDefault(g)
              index == loc[t].idx
          IN  /\ PlayIndexValid(t, g) /\ calls[g] > 0
                 => /\ pc'[t] = "pi_play"
                    /\ loc'[t] = loc[t]
                    /\ server_queues' = server_queues
                    /\ Len(tracks'[g]) = Len(tracks[g])
                    /\ IsSome(q.current)
                       => tracks'[g][Unwrap(q.current).handle].state = "paused"
              /\ loc[t].g = g /\ Leaves(t, "pi_play") /\ calls[g] > 0
                 => /\ pc'[t] = "return"
                    /\ ret'[t] = Result("Ok", song_at(q, index))
                    /\ tracks'[g] = Append(tracks[g], [song |-> song_at(q, index),
                                                       state |-> "playing"])
                    /\ QueueOrDefault(g)' =
                          [q EXCEPT !.current = Some([index |-> index,
                                                      handle |-> Len(tracks'[g])])]]_vars

\* the track with handle h of guild g fails in this step
Errors(g, h) ==
    /\ h <= Len(tracks[g])
    /\ tracks[g][h].state # "errored"
    /\ tracks'[g][h].state = "errored"

\* C20: a track-errored event changes no guild's queue (entries, current,
\* loop flags), history or status pointer.
C20_ErrorOnlyLogs ==
    [][(\E g \in Guilds, h \in 1..MaxTracks : Errors(g, h))
       => server_queues' = server_queues /\ server_info' = server_info]_vars

\* the current track of a guild has failed while the guild has a second
\* entry, an earlier song in its history and a status message
C20_Witness ==
    \E g \in Guilds :
        /\ IsSome(QueueOrDefault(g).current)
        /\ tracks[g][Unwrap(QueueOrDefault(g).current).handle].state = "errored"
        /\ Len(QueueOrDefault(g).songs) = 2
        /\ InfoOrDefault(g).previous_songs # << >>
        /\ IsSome(InfoOrDefault(g).status_message)

\* the value a loop toggle returns for a flag
Returned(flag) == Result(IF flag THEN "True" ELSE "False", "none")

\* C21: set_loop_song (set_loop_queue) negates the guild's loop_song
\* (loop_queue) flag and returns the new value, leaves the other flag, the
\* entries and current as they were, and a second call gives the first
\* value of the flag back.
C21_Toggle ==
    [][\A t \in Tasks, g \in QueueGuilds :
          LET q == QueueOrDefault(g)
              after == QueueOrDefault(g)'
          IN  /\ loc[t].g = g /\ Leaves(t, "set_loop_song")
                 => /\ after = [q EXCEPT !.loop_song = ~q.loop_song]
                    /\ ret'[t] = Returned(after.loop_song)
                    /\ [after EXCEPT !.loop_song = toggled(@)] = q
              /\ loc[t].g = g /\ Leaves(t, "set_loop_queue")
                 => /\ after = [q EXCEPT !.loop_queue = ~q.loop_queue]
                    /\ ret'[t] = Returned(after.loop_queue)
                    /\ [after EXCEPT !.loop_queue = toggled(@)] = q]_vars

\* set_loop_song has returned false, so a second toggle has switched the
\* flag off again, while loop_queue is on and the first of two entries is
\* current
C21_Witness ==
    \E g \in Guilds :
        /\ pc["t1"] = "return"
        /\ ret["t1"] = Returned(FALSE)
        /\ ~QueueOrDefault(g).loop_song
        /\ QueueOrDefault(g).loop_queue
        /\ Len(QueueOrDefault(g).songs) = 2
        /\ IsSome(QueueOrDefault(g).current)

\* the guild's state is created in this step by a mutating operation of
\* task t, from the default state
Recreates(t, g) ==
    \/ /\ Leaves(t, "add_push")
       /\ server_queues'[g] = Some([DefaultQueue EXCEPT !.songs = << loc[t].song >>])
    \/ /\ Leaves(t, "set_loop_song")
       /\ server_queues'[g] = Some([DefaultQueue EXCEPT !.loop_song = TRUE])
    \/ /\ Leaves(t, "set_loop_queue")
       /\ server_queues'[g] = Some([DefaultQueue EXCEPT !.loop_queue = TRUE])

\* C22: reset_queue removes the guild's state and returns the state held
\* before (None when there was none) and leaves every other guild's state
\* alone; get_queue returns the state held, None after a reset, and creates
\* none; a state absent is only created by a mutating operation, which
\* starts from no entries, no current and both loop flags off.
C22_Reset ==
    [][\A g \in Guilds :
          /\ \A t \in Tasks :
                /\ loc[t].g = g /\ Leaves(t, "reset_queue")
                   => /\ ret'[t].queue = server_queues[g]
                      /\ server_queues'[g] = None
                      /\ \A o \in Guilds \ {g} : server_queues'[o] = server_queues[o]
                /\ loc[t].g = g /\ Leaves(t, "get_queue")
                   => /\ ret'[t].queue = server_queues[g]
                      /\ server_queues' = server_queues
          /\ server_queues[g] = None /\ server_queues'[g] # None
             => \E t \in Tasks : loc[t].g = g /\ Recreates(t, g)]_vars

\* reset_queue has returned the state of g1, two entries with a current and
\* loop_song on, and g1 has no state now, while g2 keeps its entry
C22_Witness ==
    /\ pc["t1"] = "return"
    /\ ret["t1"].kind = "Reset"
    /\ IsSome(ret["t1"].queue)
    /\ Len(Unwrap(ret["t1"].queue).songs) = 2
    /\ IsSome(Unwrap(ret["t1"].queue).current)
    /\ Unwrap(ret["t1"].queue).loop_song
    /\ server_queues["g1"] = None
    /\ Len(QueueOrDefault("g2").songs) = 1

\* task t takes a step of the leave command for guild g
LeaveTurn(t, g) ==
    /\ loc[t].g = g
    /\ pc[t] \in {"leave", "leave_say", "leave_unset", "leave_update"}
    /\ pc'[t] # pc[t]

\* C23: the leave command does not modify the guild's history: after every
\* step of leave previous_songs is what it was before the step.
C23_LeaveKeepsHistory ==
    [][\A t \in Tasks, g \in Guilds :
          LeaveTurn(t, g)
          => InfoOrDefault(g)'.previous_songs = InfoOrDefault(g).previous_songs]_vars

\* leave has removed the call and unset the status message and is at its
\* final update, and the guild's history holds a song
C23_Witness ==
    \E g \in Guilds :
        /\ pc["t1"] = "leave_update"
        /\ loc["t1"].g = g
        /\ calls[g] = 0
        /\ InfoOrDefault(g).previous_songs # << >>
        /\ ~IsSome(InfoOrDefault(g).status_message)

\* what the leave command of task t does step by step for guild g; with
\* unanswered, it may also stop with a status message left set, when its
\* answer "Left voice channel" could not be sent
LeaveContract(t, g, unanswered) ==
    LET prev == InfoOrDefault(g).status_message
    IN  /\ Leaves(t, "leave") /\ calls[g] > 0
           => pc'[t] = "leave_say" /\ calls'[g] = 0
        /\ Leaves(t, "leave_say")
           => \/ pc'[t] = "leave_unset"
              \/ /\ pc'[t] = "return"
                 /\ server_info' = server_info
                 /\ unanswered \/ ~IsSome(prev)
        /\ Leaves(t, "leave_unset")
           => /\ ~IsSome(InfoOrDefault(g).status_message')
              /\ IsSome(prev) => pc'[t] = "leave_update" /\ loc'[t].prev = prev
              /\ ~IsSome(prev) => pc'[t] = "return"
        /\ Leaves(t, "leave_update")
           => pc'[t] = "return" /\ server_info' = server_info

ItemsFit(embed) ==
    /\ IsSome(embed.title) => Unwrap(embed.title).len <= 256
    /\ IsSome(embed.description) => Unwrap(embed.description).len <= 4096
    /\ \A i \in 1..Len(embed.fields) :
          embed.fields[i].name.len <= 256 /\ embed.fields[i].value.len <= 1024

\* the lengths of the texts of all embeds built against the Size so far,
\* the one being built included
SumAll ==
    Embeds.sum + (IF pc["embeds"] = "idle" THEN 0 ELSE EmbedLen(Embeds.embed))

\* C24 as stated: for the embeds built against one Size, the lengths of all
\* titles, descriptions, field names, field values and footers sum to at
\* most 6000, every description is at most 4096 long, every title and
\* field name at most 256 and every field value at most 1024.
C24_AsStated == SumAll <= 6000 /\ ItemsFit(Embeds.embed)

\* C25: with an empty too_big_msg, a description of at most 4096 bytes is
\* stored as given whenever the Size before it plus its length is at most
\* 6000.
C25_DescriptionKept ==
    [][/\ pc["embeds"] = "building"
       /\ pc'["embeds"] = "described"
       /\ Embeds.too_big_msg = 0
       /\ loc'["embeds"].given <= 4096
       /\ Embeds.size + loc'["embeds"].given <= 6000
       => /\ loc'["embeds"].embed.description = Some(Text(loc'["embeds"].given))
          /\ loc'["embeds"].overflowed = Embeds.overflowed
          /\ loc'["embeds"].size = Embeds.size + loc'["embeds"].given]_vars

\* the third embed's description of 4000 bytes has been stored whole after
\* two of 1000 bytes, the three filling the budget of 6000 exactly
C25_Witness ==
    /\ pc["embeds"] = "described"
    /\ Embeds.too_big_msg = 0
    /\ Embeds.count = 2
    /\ Embeds.sum = 2000
    /\ Embeds.size = EMBED_MAX_SIZE
    /\ Embeds.embed.description = Some(Text(4000))
    /\ ~Embeds.overflowed

\* the scheduler drops its cycle in this step: the 5 seconds of the select!
\* are over while it awaits get_info or an edit
Abandons == pc["sched"] \in {"get_info", "edit"} /\ pc'["sched"] = "sleep"

\* the scheduler ends its sleep and starts the next cycle in this step
NextCycle == pc["sched"] = "sleep" /\ pc'["sched"] = "start"

\* C26: the work of a cycle never runs for more than 5 seconds; a cycle
\* whose work has run for 5 seconds is dropped with the guilds left in its
\* snapshot not updated, and the next cycle starts with a sleep of zero.
C26_Abandoned ==
    [][/\ loc'["sched"].elapsed <= 5000
       /\ Abandons
          => /\ loc'["sched"].elapsed = 5000
             /\ loc'["sched"].to_update = << >>
             /\ loc'["sched"].overrun
             /\ server_info' = server_info
       /\ NextCycle /\ Sched.overrun => loc'["sched"].sleep_ms = 0]_vars

\* a cycle has been dropped after 5 seconds while a guild has a status
\* message, and the scheduler is about to sleep
C26_Witness ==
    /\ pc["sched"] = "sleep"
    /\ Sched.overrun
    /\ Sched.elapsed = 5000
    /\ \E g \in Guilds : IsSome(InfoOrDefault(g).status_message)

\* the time from the start of the cycle that ends in this step to the start
\* of the next one
Period == Sched.elapsed + loc'["sched"].sleep_ms

\* C27 as stated: after a cycle whose work takes less than 2 seconds the
\* next cycle starts 2 seconds after the start of that cycle.
C27_AsStated ==
    [][NextCycle /\ Sched.elapsed < 2000 => Period = 2000]_vars

\* the rest of the 2 seconds after elapsed milliseconds, zero at least
Remainder(elapsed) == IF elapsed >= 2000 THEN 0 ELSE 2000 - elapsed

C29_NoLockAcrossAwait ==
    \A p \in Procs : \A a \in Awaiting(p) :
        held(a.file, a.line) \cap {"server_info", "ServerInfo", "server_queues"} = {}

\* the scheduler awaits the edit of a status message while a command
\* awaits the lock of the call in play_index_unchecked
C29_Witness ==
    /\ pc["sched"] = "edit"
    /\ pc["t1"] = "add_play"
    /\ \E a \in Awaiting("sched") : a.awaits = "edit_message"
    /\ \E a \in Awaiting("t1") : a.awaits = "transport" /\ a.line = 210

\* the length of the longest prefix of s that ends on a character boundary
\* and has at most k bytes
LongestCharPrefix(s, k) ==
    CHOOSE n \in 0..k :
        /\ is_char_boundary(s, n)
        /\ \A j \in (n + 1)..k : ~is_char_boundary(s, j)

\* what C31 says of a call with more than max_len bytes and max_len >= 3,
\* and of a call with max_len < 3
CharCut(s, max_len, out) ==
    /\ Len(s) > max_len /\ max_len >= 3
       => /\ out = SubSeq(s, 1, LongestCharPrefix(s, max_len - 3)) \o char_trim_str
          /\ Len(out) <= max_len
          /\ is_char_boundary(s, Len(out) - 3)
    /\ max_len < 3 => out = << >>

\* C31 as stated: truncate_string_to_char_boundary leaves s unchanged when
\* len(s) <= max_len; otherwise (max_len >= 3) the result is the longest
\* prefix of s that ends on a character boundary and has at most max_len - 3
\* bytes, followed by "...", never longer than max_len and never splitting a
\* character; when max_len < 3 the result is the empty string.
C31_AsStated ==
    pc["trunc"] = "done" /\ Trunc.func = "char"
    => /\ Len(Trunc.s) <= Trunc.max_len => Trunc.out = Trunc.s
       /\ CharCut(Trunc.s, Trunc.max_len, Trunc.out)

\* C31 amended: s is left unchanged when len(s) <= max_len and max_len >= 3;
\* the rest as stated, the empty string being the result for every s when
\* max_len < 3.
C31_CharBoundary ==
    pc["trunc"] = "done" /\ Trunc.func = "char"
    => /\ Len(Trunc.s) <= Trunc.max_len /\ Trunc.max_len >= 3 => Trunc.out = Trunc.s
       /\ CharCut(Trunc.s, Trunc.max_len, Trunc.out)

\* a string that starts with a character of 4 bytes has been cut with
\* max_len - 3 inside that character: only "..." is left
C31_Witness ==
    /\ pc["trunc"] = "done"
    /\ Trunc.func = "char"
    /\ Trunc.s = encode(<< "w4", "a", "a" >>)
    /\ Trunc.max_len = 5
    /\ Trunc.out = char_trim_str

\* the places of s, at or before byte k, that hold a newline (from 0)
NewlinesUpTo(s, k) == {i \in 0..k : i < Len(s) /\ s[i + 1] = "nl"}

\* the length of the prefix of s just before the last newline at or before
\* byte k, 0 when there is none
BeforeLastNewline(s, k) ==
    IF NewlinesUpTo(s, k) = {} THEN 0
    ELSE CHOOSE i \in NewlinesUpTo(s, k) : \A j \in NewlinesUpTo(s, k) : j <= i

\* what C32 says of a call with more than max_len bytes and max_len >= 4
NewlineCut(s, max_len, out) ==
    Len(s) > max_len /\ max_len >= 4
    => /\ out = SubSeq(s, 1, BeforeLastNewline(s, max_len - 4)) \o newline_trim_str
       /\ Len(out) <= max_len

\* C32 as stated: truncate_string_to_newline_boundary leaves s unchanged
\* when len(s) <= max_len; otherwise (max_len >= 4) the result is the prefix
\* of s just before the last newline at or before byte max_len - 4 (the
\* empty prefix if there is none), followed by "\n...", never longer than
\* max_len.
C32_AsStated ==
    pc["trunc"] = "done" /\ Trunc.func = "newline"
    => /\ Len(Trunc.s) <= Trunc.max_len => Trunc.out = Trunc.s
       /\ NewlineCut(Trunc.s, Trunc.max_len, Trunc.out)

\* C32 amended: s is left unchanged when len(s) <= max_len and max_len >= 4;
\* when max_len < 4 the result is the empty string; the rest as stated.
C32_NewlineBoundary ==
    pc["trunc"] = "done" /\ Trunc.func = "newline"
    => /\ Len(Trunc.s) <= Trunc.max_len /\ Trunc.max_len >= 4 => Trunc.out = Trunc.s
       /\ Trunc.max_len < 4 => Trunc.out = << >>
       /\ NewlineCut(Trunc.s, Trunc.max_len, Trunc.out)

\* a string with a newline after its first byte, cut two bytes after the
\* newline: the first byte and "\n..." are left
C32_Witness ==
    /\ pc["trunc"] = "done"
    /\ Trunc.func = "newline"
    /\ Trunc.s = encode(<< "a", "nl", "w4" >>)
    /\ Trunc.max_len = 5
    /\ Trunc.out = << "a" >> \o newline_trim_str

\* task t returns NowPlaying from add_song in this step, having started a
\* track
StartsNowPlaying(t) ==
    /\ pc[t] = "add_play"
    /\ pc'[t] = "return"
    /\ ret'[t].kind = "NowPlaying"
    /\ Len(tracks'[loc[t].g]) = Len(tracks[loc[t].g]) + 1

\* C33 as stated: of two add_song calls that run concurrently for a guild
\* without a current playback, one returns NowPlaying and starts a track, the
\* other returns AddedToQueue and starts nothing: no add_song returns
\* NowPlaying while the add_song of the other task, which pushed its song
\* before, has returned NowPlaying too.
C33_AsStated ==
    [][\A t, u \in Tasks :
          t # u /\ StartsNowPlaying(t) => ~(pc[u] = "return" /\ ret[u].kind = "NowPlaying")]_vars

\* the guild the scheduler is updating has a status message at another
\* location than the one of the scheduler's snapshot
NewLocation ==
    /\ IsSome(InfoOrDefault(SchedGuild).status_message)
    /\ Unwrap(InfoOrDefault(SchedGuild).status_message) # Head(Sched.to_update).loc

\* C34 as stated: the scheduler unsets only the pointer it tried to update:
\* when a command has stored a new location for the guild while the update
\* of the older one was in flight and that update's edit fails, the new
\* location is still set after the scheduler has finished the guild.
C34_AsStated ==
    [][\A g \in Guilds :
          /\ SchedLeaves("edited")
          /\ g = SchedGuild
          /\ ~Sched.edit_ok
          /\ NewLocation
          => server_info'[g] = server_info[g]]_vars

\* C35: no interleaving of the commands, the track-end handlers and the
\* scheduler deadlocks on the queue map lock, the server_info map lock, the
\* mutexes of the guilds' ServerInfo and the mutexes of the calls: whenever a
\* process is inside a command, a handler or a cycle, some process can take
\* its next step.
C35_NoDeadlock ==
    (\E p \in Procs : pc[p] = "locking") => \E q \in Procs : CanStep(q)

\* a task holds the mutex of a call and waits for the queue map lock, which
\* the other task holds, while the scheduler holds the server_info map lock
C35_Witness ==
    \E t, u \in Tasks :
        /\ Acquiring(t)
        /\ Head(Locking(t).prog).lock = Lock("Q", "-")
        /\ ~CanStep(t)
        /\ \E h \in HeldBy(t) : h.lock.name = "H"
        /\ \E h \in HeldBy(u) : h.lock = Lock("Q", "-")
        /\ \E h \in HeldBy("sched") : h.lock = Lock("M", "-")

\* the status pointer of guild g
Pointer(g) == InfoOrDefault(g).status_message

\* C36 as stated: when the bot is not in the voice channel of a guild whose
\* status pointer is set, and no command sets the pointer again, the running
\* scheduler unsets the pointer later on, also when the edit succeeds:
\* from then on the pointer is unset or set anew, or the bot joins the
\* channel, or the scheduler's task has panicked.
C36_AsStated ==
    \A g \in Guilds : \A m \in Msgs :
        (calls[g] = 0 /\ Pointer(g) = Some(m))
        ~> (Pointer(g) # Some(m) \/ calls[g] > 0 \/ pc["sched"] = "panicked")

\* C36 amended: the cycle that builds the guild's message while the bot is
\* not in the channel unsets the guild's pointer, also when the edit
\* succeeds, unless the cycle is dropped after 5 seconds before it has
\* finished the guild.
C36_ClearedWhenProcessed ==
    \A g \in Guilds :
        (pc["sched"] = "edit" /\ Sched.not_in_channel /\ SchedGuild = g)
        ~> (~IsSome(Pointer(g)) \/ Sched.overrun)

\* the edit of the message of a guild without a call has succeeded and the
\* scheduler is about to unset the guild's pointer
C36_Witness ==
    /\ pc["sched"] = "edited"
    /\ Sched.not_in_channel
    /\ Sched.edit_ok
    /\ ~Sched.success
    /\ calls[SchedGuild] = 0
    /\ Pointer(SchedGuild) = Some(Head(Sched.to_update).loc)

\* the sequence a is the start of the sequence b
IsPrefix(a, b) == Len(a) <= Len(b) /\ SubSeq(b, 1, Len(a)) = a

\* task t leaves the lock scope of add_song that pushes the song
Pushes(t) == pc[t] = "add_push" /\ pc'[t] # "add_push"

\* C37: between two resets of a guild its entries only grow at the end:
\* every step that keeps the guild's queue keeps the entries it had as a
\* prefix, the push of add_song adds exactly its song at the end, and no
\* other step (play_index, next_song, the loop toggles, get_queue) changes
\* the entries.
C37_AppendOnly ==
    [][\A g \in Guilds :
          IsSome(server_queues'[g])
          => /\ IsPrefix(QueueOrDefault(g).songs, Unwrap(server_queues'[g]).songs)
             /\ IF \E t \in Tasks : Pushes(t) /\ loc[t].g = g
                THEN \E t \in Tasks :
                        /\ Pushes(t)
                        /\ Unwrap(server_queues'[g]).songs =
                              Append(QueueOrDefault(g).songs, loc[t].song)
                ELSE Unwrap(server_queues'[g]).songs = QueueOrDefault(g).songs]_vars

\* a queue of two different songs, the second current, with the loops
\* switched on: songs were added, played and stepped through
C37_Witness ==
    \E g \in Guilds :
        /\ IsSome(server_queues[g])
        /\ QueueOrDefault(g).songs = << "X", "Y" >>
        /\ QueueOrDefault(g).loop_queue
        /\ IsSome(QueueOrDefault(g).current)
        /\ Unwrap(QueueOrDefault(g).current).index = 1

Updating == pc["sched"] \in {"build", "get_info", "got_info", "edit", "edited"}

\* C39 as stated: a cycle that is not dropped at the 5 seconds gives every
\* guild that had a status pointer at the snapshot exactly one update, at
\* the location of the snapshot, and no other guild any, one guild after
\* the other.  The snapshot holds exactly the guilds with a pointer, each
\* once with its location; the scheduler works on the first guild left,
\* edits its message once and takes it off the list; and unless the cycle
\* is dropped it goes on until the list is empty.
C39_AsStated ==
    [][/\ pc["sched"] = "start" /\ pc'["sched"] # "start"
          => /\ \A g \in Guilds :
                   IsSome(Pointer(g))
                   <=> \E i \in 1..Len(loc'["sched"].to_update) :
                           loc'["sched"].to_update[i].g = g
             /\ \A i \in 1..Len(loc'["sched"].to_update) :
                   Pointer(loc'["sched"].to_update[i].g)
                       = Some(loc'["sched"].to_update[i].loc)
             /\ \A i, j \in 1..Len(loc'["sched"].to_update) :
                   loc'["sched"].to_update[i].g = loc'["sched"].to_update[j].g => i = j
       /\ Updating /\ pc'["sched"] # pc["sched"]
          => \/ pc'["sched"] = "sleep" /\ loc'["sched"].overrun
             \/ /\ pc["sched"] = "edited"
                /\ loc'["sched"].to_update = Tail(Sched.to_update)
                /\ pc'["sched"] = IF Tail(Sched.to_update) = << >> THEN "sleep" ELSE "build"
             \/ /\ pc["sched"] # "edited"
                /\ loc'["sched"].to_update = Sched.to_update
                /\ pc'["sched"] \in {"get_info", "got_info", "edit", "edited"}
                /\ pc'["sched"] = "edited" <=> pc["sched"] = "edit"]_vars

====
